---- MODULE Spec2Model ----
(***************************************************************************)
(* The update-subscription engine of src/src/notify.ts: the durable config *)
(* store, the durable version-state store, the change detector, the        *)
(* scheduler and the notify.* commands, as a state machine.                *)
(*                                                                         *)
(* JavaScript values are encoded as follows.  A boolean that may be unset  *)
(* is one of the strings ON, OFF, UNDEF.  A version label is a string;     *)
(* UNDEF is the missing label and "" the empty one (both falsy).  A number *)
(* that may be unset is a tuple: <<>> (undefined, Number(..) is NaN) or    *)
(* <<n>>.  Time is in milliseconds.                                        *)
(***************************************************************************)
EXTENDS Integers, Sequences, FiniteSets, TLC

ON == "true"
OFF == "false"
UNDEF == "undefined"

\* ------------------------------------------------------------------ bounds
\* the clock advances MaxClock times by TimeStep
MaxClock == 4
\* process restarts in one behaviour
MaxRestarts == 1
\* releases an upstream project publishes in one behaviour
MaxReleases == 2
\* entries one channel's subscription list is allowed to grow to
MaxSubs == 2
\* tasks waiting in the search plugin's queue
MaxQueue == 2
\* re-arm timeouts of the search plugin's queue pending at once
MaxTimers == 2
MaxArrivals == 4

\* ------------------------------------------------------- program constants
MinInterval == 60 * 1000
DefaultInterval == 30 * 60 * 1000
BaseTick == 60 * 1000
StartupDelay == 10 * 1000
DefaultAuthority == 3

\* granularity of the modelled clock and the time the process first starts
TimeStep == 30 * 1000
StartTime == 100 * BaseTick

Max(a, b) == IF a >= b THEN a ELSE b

\* ------------------------------------------------------------ input domains
Channels == {"c1", "c2"}
NoChannel == ""

\* String.prototype.trim on the strings of the model
Trim(s) == CASE s = " p1" -> "p1"
             [] s = " " -> ""
             [] OTHER -> s

\* normalizePlatform: 'mr' | 'cf' | null (null is "")
normalizePlatform(p) == IF p = "mr" \/ p = "cf" THEN p ELSE ""

getStateKey(channelId, platform, projectId) ==
    channelId \o "|" \o platform \o "|" \o projectId

Sub(p, x, iv) == [platform |-> p, projectId |-> x, interval |-> iv]
Group(c, e, ss) == [channelId |-> c, enabled |-> e, subs |-> ss]

\* ---------------------------------------------------------------- variables
VARIABLES
    now,            \* Date.now()
    plugin,         \* the config object the host hands to apply(): never written to disk by this code
    config,         \* config.enabled and config.groups, as mutated in memory
    configLoaded,   \* notify.ts:158
    loading,        \* the readFile of loadConfigFromFile that startAutoCheck awaits
    bots,           \* ctx.bots: the platform of each bot connection, in order
    delivery,       \* the last call of sendToChannel: its attempts and its outcome
    cfgFile,        \* the config file on disk
    stateCache,     \* notify.ts:154, key -> lastVersion
    stateLoaded,    \* notify.ts:155
    saving,         \* notify.ts:156
    stFile,         \* the state file on disk
    lastCheckMap,   \* notify.ts:153, key -> time of the last scheduled check
    upstream,       \* the latest release each platform reports for a project
    tasks,          \* the handlers in flight (scheduled passes, notify.check), each at an await
    timers,         \* the timers armed by startAutoCheck
    reply,          \* what the last command answered
    restarts,       \* process restarts so far
    sentCur,        \* history: notifications dispatched by non-forced checks for the current release
    prevRec,        \* history: the label fetched by the last completed check of a key in this process
    savedGroups,    \* history: config.groups as of the last write of the config file
    savedState,     \* history: stateCache as of the last write of the state file
    searchStates,   \* notify.ts:682, session.cid -> the search list the session is in
    queue,          \* notify.ts:2963, the search plugin's tasks waiting
    isProcessing,   \* notify.ts:2964
    executing,      \* the queued tasks that have been started and have not returned
    rearm,          \* pending setTimeout(processQueue, 500)
    arrived,        \* history: the number of queue.push calls so far
    shown           \* what each session was sent last, and the list page it was sent last

cfgVars == <<config, configLoaded, cfgFile, savedGroups>>
stVars == <<stateCache, stateLoaded, saving, stFile, savedState>>
histVars == <<sentCur, prevRec>>
searchVars == <<searchStates, queue, isProcessing, executing, rearm, arrived, shown>>
botVars == <<bots, delivery>>
notifyVars == <<now, plugin, loading, botVars, config, configLoaded, cfgFile, stateCache, stateLoaded, saving,
                stFile, lastCheckMap, upstream, tasks, timers, reply, restarts, sentCur,
                prevRec, savedGroups, savedState>>
vars == <<notifyVars, searchVars>>

\* ------------------------------------------------------- durable config store
\* A config file that cannot be read or parsed
NoCfgFile == [ok |-> FALSE, enabled |-> UNDEF, hasGroups |-> FALSE, groups |-> <<>>]
CfgFile(e, gs) == [ok |-> TRUE, enabled |-> e, hasGroups |-> TRUE, groups |-> gs]

\* !!config.enabled
Truthy(flag) == IF flag = ON THEN ON ELSE OFF

\* A faulty variant of saveConfigToFile, against which the round trip of the config
\* is tested: the groups that are switched off are left out of the file.
saveConfigToFileEnabledOnly(cfg, file, w) ==
    LET IsOn(g) == g.enabled # OFF
    IN  IF w THEN [ok |-> TRUE, enabled |-> Truthy(cfg.enabled), hasGroups |-> TRUE,
                   groups |-> IF cfg.hasGroups THEN SelectSeq(cfg.groups, IsOn) ELSE <<>>]
             ELSE file

\* saveConfigToFile: what the file holds after the call; w is whether the write succeeds
saveConfigToFile(cfg, file, w) ==
    IF w THEN [ok |-> TRUE, enabled |-> Truthy(cfg.enabled), hasGroups |-> TRUE,
               groups |-> IF cfg.hasGroups THEN cfg.groups ELSE <<>>]
         ELSE file

\* loadConfigFromFile: the in-memory config and the file after the call
loadConfigFromFile(cfg, loaded, file, w) ==
    IF loaded THEN [config |-> cfg, file |-> file, wrote |-> FALSE]
    ELSE IF file.ok
    THEN LET c1 == [cfg EXCEPT !.enabled = IF file.enabled # UNDEF THEN file.enabled ELSE @]
             c2 == IF file.hasGroups
                   THEN [c1 EXCEPT !.hasGroups = TRUE, !.groups = file.groups]
                   ELSE c1
             c3 == IF c2.hasGroups THEN c2 ELSE [c2 EXCEPT !.hasGroups = TRUE, !.groups = <<>>]
         IN  [config |-> c3, file |-> file, wrote |-> FALSE]
    ELSE LET c1 == IF cfg.hasGroups THEN cfg ELSE [cfg EXCEPT !.hasGroups = TRUE, !.groups = <<>>]
         IN  IF Len(c1.groups) > 0
             THEN [config |-> c1, file |-> saveConfigToFile(c1, file, w), wrote |-> w]
             ELSE [config |-> c1, file |-> file, wrote |-> FALSE]

\* getConfigGroups
getConfigGroups(cfg) == IF cfg.hasGroups THEN cfg.groups ELSE <<>>

\* index of the first group of the channel, 0 when there is none (getGroup)
GroupIndex(groups, channelId) ==
    IF \E i \in 1..Len(groups) : groups[i].channelId = channelId
    THEN CHOOSE i \in 1..Len(groups) :
            /\ groups[i].channelId = channelId
            /\ \A j \in 1..(i - 1) : groups[j].channelId # channelId
    ELSE 0

\* ensureGroup: the group list with the channel's group created if missing and its
\* enabled flag defaulted
ensureGroup(groups, channelId) ==
    LET i == GroupIndex(groups, channelId)
    IN  IF i = 0 THEN Append(groups, Group(channelId, ON, <<>>))
        ELSE IF groups[i].enabled = UNDEF THEN [groups EXCEPT ![i].enabled = ON]
        ELSE groups

\* A faulty variant of parseOnOff, against which the refusals are tested: what is not
\* a word for off counts as on.
parseOnOffDefaultsOn(v) ==
    IF Trim(v) \in {"0", "off", "false", "no", "n"} THEN OFF ELSE ON

\* parseOnOff: ON, OFF or UNDEF (null)
parseOnOff(v) == IF Trim(v) \in {"1", "on", "true", "yes", "y"} THEN ON
                 ELSE IF Trim(v) \in {"0", "off", "false", "no", "n"} THEN OFF
                 ELSE UNDEF

\* A faulty variant of EffectiveInterval, against which the floor is tested: the
\* chosen value is handed on as it is.
EffectiveIntervalNoFloor(raw, cfgInterval) ==
    IF raw # <<>> /\ raw[1] # 0 THEN raw[1]
    ELSE IF cfgInterval # <<>> /\ cfgInterval[1] # 0 THEN cfgInterval[1]
    ELSE DefaultInterval

\* rawInterval || Number(config.interval) || 30 * 60 * 1000, floored at one minute
EffectiveInterval(raw, cfgInterval) ==
    Max(MinInterval,
        IF raw # <<>> /\ raw[1] # 0 THEN raw[1]
        ELSE IF cfgInterval # <<>> /\ cfgInterval[1] # 0 THEN cfgInterval[1]
        ELSE DefaultInterval)

\* the loop body of getConfigSubs for one stored entry: is the entry handed on
SubIsListed(sub) ==
    /\ normalizePlatform(sub.platform) # ""
    /\ Trim(sub.projectId) # ""
    /\ ~(sub.interval # <<>> /\ sub.interval[1] <= 0)

RECURSIVE SubsOfGroup(_, _, _)
SubsOfGroup(channelId, list, cfgInterval) ==
    IF list = <<>> THEN <<>>
    ELSE LET sub == Head(list)
             rest == SubsOfGroup(channelId, Tail(list), cfgInterval)
         IN  IF SubIsListed(sub)
             THEN <<[channelId |-> channelId,
                     platform |-> normalizePlatform(sub.platform),
                     projectId |-> Trim(sub.projectId),
                     interval |-> EffectiveInterval(sub.interval, cfgInterval)]>> \o rest
             ELSE rest

\* getConfigSubs(channelId): channelId "" is the call without an argument
RECURSIVE getConfigSubs(_, _, _)
getConfigSubs(groups, channelId, cfgInterval) ==
    IF groups = <<>> THEN <<>>
    ELSE LET g == Head(groups)
             rest == getConfigSubs(Tail(groups), channelId, cfgInterval)
         IN  IF \/ g.channelId = ""
                \/ (channelId # "" /\ g.channelId # channelId)
                \/ g.enabled = OFF
             THEN rest
             ELSE SubsOfGroup(g.channelId, g.subs, cfgInterval) \o rest

\* A faulty variant of getConfigSubsOrdered, against which the effect of a group's
\* flag on notify.check is tested: the test of group.enabled is left out.
getConfigSubsOrderedOfAnyGroup(groups, channelId, cfgInterval) ==
    getConfigSubs([i \in 1..Len(groups) |-> [groups[i] EXCEPT !.enabled = ON]],
                  channelId, cfgInterval)

\* getConfigSubsOrdered(channelId)
getConfigSubsOrdered(groups, channelId, cfgInterval) ==
    getConfigSubs(groups, channelId, cfgInterval)

\* A faulty variant of Matches, against which the uniqueness of the pairs is tested:
\* the stored entry is compared as it is written, without normalising it.
MatchesRaw(sub, platformKey, pid) ==
    sub.platform = platformKey /\ sub.projectId = pid

\* does a stored entry match the pair (platformKey, pid), as notify.add and
\* notify.remove compare
Matches(sub, platformKey, pid) ==
    normalizePlatform(sub.platform) = platformKey /\ Trim(sub.projectId) = pid

\* A faulty variant of Without, against which notify.remove is tested: only the first
\* matching entry is dropped.
WithoutFirstMatch(list, platformKey, pid) ==
    LET hits == {k \in 1..Len(list) : Matches(list[k], platformKey, pid)}
        k == CHOOSE h \in hits : \A j \in hits : h <= j
    IN  IF hits = {} THEN list
        ELSE SubSeq(list, 1, k - 1) \o SubSeq(list, k + 1, Len(list))

RECURSIVE Without(_, _, _)
\* group.subs.filter(s => !match)
Without(list, platformKey, pid) ==
    IF list = <<>> THEN <<>>
    ELSE IF Matches(Head(list), platformKey, pid)
         THEN Without(Tail(list), platformKey, pid)
         ELSE <<Head(list)>> \o Without(Tail(list), platformKey, pid)

\* A faulty variant of requireManage, against which the rejections are tested: above
\* threshold 1 an admin is always enough.
requireManageAdminSuffices(authority, roleLevel) ==
    LET level == IF authority = <<>> THEN DefaultAuthority ELSE authority[1]
    IN  IF level <= 1 THEN TRUE ELSE roleLevel >= 2

\* requireManage, given the configured threshold and the caller's resolved role level
requireManage(authority, roleLevel) ==
    LET level == IF authority = <<>> THEN DefaultAuthority ELSE authority[1]
    IN  IF level <= 1 THEN TRUE
        ELSE IF level <= 2 THEN roleLevel >= 2
        ELSE roleLevel >= 3


\* ------------------------------------------------------------------ commands
\* Replies are tags; the text each tag stands for is in the comment of the command.
Reply(tag) == [tag |-> tag, lines |-> <<>>]
NoReply == Reply("")

\* Number(config.interval) || 30 * 60 * 1000, floored at one minute (notify.add)
AddInterval(cfgInterval) == EffectiveInterval(<<>>, cfgInterval)

\* What every command does first and last: config is loaded, the outcome is stored.
\* file is the config file after the command, wrote whether the command wrote it.
Outcome(cfg, file, wrote, r) ==
    /\ config' = cfg
    /\ configLoaded' = TRUE
    /\ cfgFile' = file
    /\ savedGroups' = IF wrote THEN [has |-> TRUE, groups |-> getConfigGroups(cfg)]
                      ELSE savedGroups
    /\ reply' = r

\* notify.add <platform> <projectId>
\*   ArgsMissing '参数不足。'   BadPlatform '平台参数错误'   NoChannel '只能在群聊使用'
\*   Denied '权限不足。'   EmptyId '项目 ID 不能为空。'   Exists '已存在订阅'   Added '已添加订阅'
NotifyAdd(channelId, platform, projectId, roleLevel, w) ==
    LET L == loadConfigFromFile(config, configLoaded, cfgFile, w)
        platformKey == normalizePlatform(platform)
        pid == Trim(projectId)
        groups == ensureGroup(getConfigGroups(L.config), channelId)
        i == GroupIndex(groups, channelId)
        list == groups[i].subs
        exists == \E k \in 1..Len(list) : Matches(list[k], platformKey, pid)
        entry == Sub(platformKey, pid, <<AddInterval(plugin.interval)>>)
        ensured == [L.config EXCEPT !.hasGroups = TRUE, !.groups = groups]
        added == [ensured EXCEPT !.groups[i].subs = Append(list, entry)]
    IN  /\ IF platform = "" \/ projectId = ""
           THEN Outcome(L.config, L.file, L.wrote, Reply("ArgsMissing"))
           ELSE IF platformKey = ""
           THEN Outcome(L.config, L.file, L.wrote, Reply("BadPlatform"))
           ELSE IF channelId = NoChannel
           THEN Outcome(L.config, L.file, L.wrote, Reply("NoChannel"))
           ELSE IF ~requireManage(plugin.adminAuthority, roleLevel)
           THEN Outcome(L.config, L.file, L.wrote, Reply("Denied"))
           ELSE IF pid = ""
           THEN Outcome(L.config, L.file, L.wrote, Reply("EmptyId"))
           ELSE IF exists
           THEN Outcome(ensured, L.file, L.wrote, Reply("Exists"))
           ELSE /\ Len(list) < MaxSubs
                /\ Outcome(added, saveConfigToFile(added, L.file, w), L.wrote \/ w,
                           Reply("Added"))
        /\ UNCHANGED <<now, plugin, loading, botVars, searchVars, stVars, lastCheckMap, upstream, tasks, timers,
                       restarts, histVars>>

\* A faulty variant of notify.remove, against which the keeping of state entries is
\* tested: the entry of the removed subscription is deleted from the state map.
NotifyRemoveForgets(channelId, platform, projectId, roleLevel, w) ==
    LET L == loadConfigFromFile(config, configLoaded, cfgFile, w)
        platformKey == normalizePlatform(platform)
        pid == Trim(projectId)
        groups == getConfigGroups(L.config)
        i == GroupIndex(groups, channelId)
        kept == Without(groups[i].subs, platformKey, pid)
        removed == [L.config EXCEPT !.groups[i].subs = kept]
        key == getStateKey(channelId, platformKey, pid)
    IN  /\ IF platform = "" \/ projectId = "" \/ platformKey = "" \/ channelId = NoChannel
              \/ ~requireManage(plugin.adminAuthority, roleLevel) \/ pid = ""
           THEN Outcome(L.config, L.file, L.wrote, Reply("Denied")) /\ UNCHANGED stateCache
           ELSE IF i = 0 \/ Len(groups[i].subs) = 0 \/ Len(kept) = Len(groups[i].subs)
           THEN Outcome(L.config, L.file, L.wrote, Reply("NotFound")) /\ UNCHANGED stateCache
           ELSE /\ Outcome(removed, saveConfigToFile(removed, L.file, w), L.wrote \/ w,
                           Reply("Removed"))
                /\ stateCache' = [k \in DOMAIN stateCache \ {key} |-> stateCache[k]]
        /\ UNCHANGED <<now, plugin, loading, botVars, searchVars, stateLoaded, saving, stFile, savedState,
                       lastCheckMap, upstream, tasks, timers, restarts, histVars>>

\* notify.remove <platform> <projectId>
\*   NotFound '未找到订阅。'   Removed '已删除订阅'
NotifyRemove(channelId, platform, projectId, roleLevel, w) ==
    LET L == loadConfigFromFile(config, configLoaded, cfgFile, w)
        platformKey == normalizePlatform(platform)
        pid == Trim(projectId)
        groups == getConfigGroups(L.config)
        i == GroupIndex(groups, channelId)
        kept == Without(groups[i].subs, platformKey, pid)
        removed == [L.config EXCEPT !.groups[i].subs = kept]
    IN  /\ IF platform = "" \/ projectId = ""
           THEN Outcome(L.config, L.file, L.wrote, Reply("ArgsMissing"))
           ELSE IF platformKey = ""
           THEN Outcome(L.config, L.file, L.wrote, Reply("BadPlatform"))
           ELSE IF channelId = NoChannel
           THEN Outcome(L.config, L.file, L.wrote, Reply("NoChannel"))
           ELSE IF ~requireManage(plugin.adminAuthority, roleLevel)
           THEN Outcome(L.config, L.file, L.wrote, Reply("Denied"))
           ELSE IF pid = ""
           THEN Outcome(L.config, L.file, L.wrote, Reply("EmptyId"))
           ELSE IF i = 0 \/ Len(groups[i].subs) = 0
           THEN Outcome(L.config, L.file, L.wrote, Reply("NotFound"))
           ELSE IF Len(kept) = Len(groups[i].subs)
           THEN Outcome(L.config, L.file, L.wrote, Reply("NotFound"))
           ELSE Outcome(removed, saveConfigToFile(removed, L.file, w), L.wrote \/ w,
                        Reply("Removed"))
        /\ UNCHANGED <<now, plugin, loading, botVars, searchVars, stVars, lastCheckMap, upstream, tasks, timers,
                       restarts, histVars>>

\* one line of notify.list: the platform and id shown and the minutes shown
ListLine(sub, cfgInterval) ==
    LET interval == Max(MinInterval,
                        IF sub.interval # <<>> /\ sub.interval[1] # 0 THEN sub.interval[1]
                        ELSE IF cfgInterval # <<>> /\ cfgInterval[1] # 0 THEN cfgInterval[1]
                        ELSE DefaultInterval)
    IN  [platform |-> IF normalizePlatform(sub.platform) # ""
                      THEN normalizePlatform(sub.platform) ELSE Trim(sub.platform),
         projectId |-> Trim(sub.projectId),
         minutes |-> (interval + 30000) \div 60000]

\* notify.list
\*   NoSubs '暂无订阅。'   DisabledNoSubs '本群通知已禁用，暂无订阅。'
\*   ListOn / ListOff '本群通知：启用 / 禁用' followed by the numbered lines
NotifyList(channelId, roleLevel, w) ==
    LET L == loadConfigFromFile(config, configLoaded, cfgFile, w)
        groups == getConfigGroups(L.config)
        i == GroupIndex(groups, channelId)
        list == groups[i].subs
    IN  /\ IF channelId = NoChannel
           THEN Outcome(L.config, L.file, L.wrote, Reply("NoChannel"))
           ELSE IF ~requireManage(plugin.adminAuthority, roleLevel)
           THEN Outcome(L.config, L.file, L.wrote, Reply("Denied"))
           ELSE IF i = 0
           THEN Outcome(L.config, L.file, L.wrote, Reply("NoSubs"))
           ELSE IF Len(list) = 0
           THEN Outcome(L.config, L.file, L.wrote,
                        Reply(IF groups[i].enabled = OFF THEN "DisabledNoSubs" ELSE "NoSubs"))
           ELSE Outcome(L.config, L.file, L.wrote,
                        [tag |-> IF groups[i].enabled = OFF THEN "ListOff" ELSE "ListOn",
                         lines |-> [k \in 1..Len(list) |-> ListLine(list[k], plugin.interval)]])
        /\ UNCHANGED <<now, plugin, loading, botVars, searchVars, stVars, lastCheckMap, upstream, tasks, timers,
                       restarts, histVars>>

\* notify.enable <onoff>
\*   BadOnOff 'onoff 参数错误'   Enabled '已启用本群通知。'   Disabled '已禁用本群通知。'
NotifyEnable(channelId, onoff, roleLevel, w) ==
    LET L == loadConfigFromFile(config, configLoaded, cfgFile, w)
        flag == parseOnOff(onoff)
        groups == ensureGroup(getConfigGroups(L.config), channelId)
        i == GroupIndex(groups, channelId)
        set == [L.config EXCEPT !.hasGroups = TRUE, !.groups = [groups EXCEPT ![i].enabled = flag]]
    IN  /\ IF channelId = NoChannel
           THEN Outcome(L.config, L.file, L.wrote, Reply("NoChannel"))
           ELSE IF ~requireManage(plugin.adminAuthority, roleLevel)
           THEN Outcome(L.config, L.file, L.wrote, Reply("Denied"))
           ELSE IF flag = UNDEF
           THEN Outcome(L.config, L.file, L.wrote, Reply("BadOnOff"))
           ELSE Outcome(set, saveConfigToFile(set, L.file, w), L.wrote \/ w,
                        Reply(IF flag = ON THEN "Enabled" ELSE "Disabled"))
        /\ UNCHANGED <<now, plugin, loading, botVars, searchVars, stVars, lastCheckMap, upstream, tasks, timers,
                       restarts, histVars>>


\* ------------------------------------------------------ version-state store
EmptyMap == [k \in {} |-> ""]
Put(f, k, v) == [x \in DOMAIN f \cup {k} |-> IF x = k THEN v ELSE f[x]]

\* The state file maps a key to what JSON holds for it: <<v>> for { "lastVersion": v },
\* <<>> for {} (JSON.stringify drops a lastVersion that is undefined), NotObject for a
\* value that is not an object (the entry is skipped on load).
NotObject == <<"not", "an object">>
\* A state file that cannot be read or parsed
NoStateFile == [ok |-> FALSE, map |-> EmptyMap]

\* latest.version || ''
OrEmpty(v) == IF v = UNDEF \/ v = "" THEN "" ELSE v
\* !state.lastVersion
Falsy(v) == v = UNDEF \/ v = ""

\* val.lastVersion of an object of the state file
LastVersionOf(val) == IF val = <<>> THEN UNDEF ELSE val[1]

\* the body of loadStateFromFile after readFile returned: each object of the file is
\* set into the cache, over what the cache holds
loadStateFromFile(cache, file) ==
    IF ~file.ok THEN cache
    ELSE [k \in DOMAIN cache \cup {x \in DOMAIN file.map : file.map[x] # NotObject} |->
            IF k \in DOMAIN file.map /\ file.map[k] # NotObject
            THEN LastVersionOf(file.map[k])
            ELSE cache[k]]

\* the object saveStateToFile writes: { key: { lastVersion } } for every cache entry
StateJson(cache) ==
    [ok |-> TRUE,
     map |-> [k \in DOMAIN cache |-> IF cache[k] = UNDEF THEN <<>> ELSE <<cache[k]>>]]

\* ------------------------------------------------------------ version fetchers
\* the projects the platforms know; any other project has an empty version list
Tracked == {"mr:p1", "cf:2"}
ProjectKey(platform, projectId) == platform \o ":" \o projectId
\* labels a Modrinth version can carry: version_number || name || id may all be missing
Labels == {"v1", "v2", "", UNDEF}
\* a CurseForge label is displayName || fileName || String(id), never falsy
LabelsOf(project) == IF project = "cf:2" THEN {"v1"} ELSE Labels

NoRec == [versionId |-> 0, version |-> UNDEF]

\* getLatestModrinth / getLatestCurseForge when the request succeeds: the first
\* element of the list, or null (NoRec) when the list is empty
getLatest(up, platform, projectId) ==
    LET project == ProjectKey(platform, projectId)
    IN  IF project \in DOMAIN up /\ up[project].versionId > 0 THEN up[project] ELSE NoRec

\* ---------------------------------------------------------------- handlers
\* the handlers that can be in flight at once
Slots == {"a", "b"}
NoSub == [channelId |-> "", platform |-> "", projectId |-> "", interval |-> 0]
Idle == [kind |-> "idle", force |-> FALSE, queue |-> <<>>, cur |-> NoSub, pc |-> "idle",
         latest |-> NoRec, after |-> "", buf |-> EmptyMap, sent |-> 0, sendOk |-> "",
         failed |-> 0]

KeyOf(sub) == getStateKey(sub.channelId, sub.platform, sub.projectId)
Busy == {s \in Slots : tasks[s].kind # "idle"}

\* Faulty variants of Eligible, against which the gate's properties are tested: the
\* timestamp is never read; a missing timestamp counts as a check made just now.
EligibleNoTimestamp(sub, lcm, t, force) ==
    LET lastCheck == 0
    IN  ~(~force /\ t - lastCheck < sub.interval)
EligibleAbsentIsNow(sub, lcm, t, force) ==
    LET lastCheck == IF KeyOf(sub) \in DOMAIN lcm THEN lcm[KeyOf(sub)] ELSE t
    IN  ~(~force /\ t - lastCheck < sub.interval)

\* A further faulty variant of Eligible, against which the wait after a check is
\* tested: the time since the last check is compared with the base tick.
EligibleAfterBaseTick(sub, lcm, t, force) ==
    LET lastCheck == IF KeyOf(sub) \in DOMAIN lcm THEN lcm[KeyOf(sub)] ELSE 0
    IN  ~(~force /\ t - lastCheck < BaseTick)

\* the gate of checkOnce (notify.ts:396-400): is the subscription checked at time t
Eligible(sub, lcm, t, force) ==
    LET lastCheck == IF KeyOf(sub) \in DOMAIN lcm THEN lcm[KeyOf(sub)] ELSE 0
    IN  ~(~force /\ t - lastCheck < sub.interval)

RECURSIVE SkipToEligible(_, _, _, _)
\* the subscriptions left once the leading ones the gate skips are dropped
SkipToEligible(subs, lcm, t, force) ==
    IF subs = <<>> THEN <<>>
    ELSE IF Eligible(Head(subs), lcm, t, force) THEN subs
    ELSE SkipToEligible(Tail(subs), lcm, t, force)

\* A faulty variant of Proceed, against which the timestamp of a check is tested:
\* lastCheckMap.set is left out.
ProceedWithoutStamp(s, tk) ==
    LET q == IF tk.kind = "pass" THEN SkipToEligible(tk.queue, lastCheckMap, now, tk.force)
             ELSE tk.queue
        next == [tk EXCEPT !.cur = Head(q), !.queue = Tail(q), !.pc = "fetch",
                           !.latest = NoRec, !.after = "", !.buf = EmptyMap, !.sendOk = ""]
    IN  IF q = <<>>
        THEN /\ tasks' = [tasks EXCEPT ![s] = Idle]
             /\ reply' = IF tk.kind = "manual"
                         THEN (IF tk.sent = 0 THEN Reply("NoUpdate") ELSE NoReply)
                         ELSE reply
             /\ UNCHANGED lastCheckMap
        ELSE /\ tasks' = [tasks EXCEPT ![s] = next]
             /\ UNCHANGED <<lastCheckMap, reply>>

\* The handler of slot s is done with its current subscription and goes on, tk being
\* its record: a pass to the next subscription the gate lets through, whose timestamp
\* it sets and whose fetch it starts; notify.check to its next target; either ends
\* when nothing is left, notify.check answering '暂无更新。' (NoUpdate) if it sent nothing.
Proceed(s, tk) ==
    LET q == IF tk.kind = "pass" THEN SkipToEligible(tk.queue, lastCheckMap, now, tk.force)
             ELSE tk.queue
        next == [tk EXCEPT !.cur = Head(q), !.queue = Tail(q), !.pc = "fetch",
                           !.latest = NoRec, !.after = "", !.buf = EmptyMap, !.sendOk = ""]
    IN  IF q = <<>>
        THEN /\ tasks' = [tasks EXCEPT ![s] = Idle]
             /\ reply' = IF tk.kind = "manual"
                         THEN (IF tk.sent = 0 THEN Reply("NoUpdate") ELSE NoReply)
                         ELSE reply
             /\ UNCHANGED lastCheckMap
        ELSE /\ tasks' = [tasks EXCEPT ![s] = next]
             /\ lastCheckMap' = IF tk.kind = "pass"
                                THEN Put(lastCheckMap, KeyOf(Head(q)), now)
                                ELSE lastCheckMap
             /\ UNCHANGED reply

\* history: the check of tk.cur is complete, having fetched tk.latest
Completed(tk) == prevRec' = Put(prevRec, KeyOf(tk.cur), tk.latest.version)

\* saveStateToFile is entered by the handler tk of slot s, which then continues at
\* `after` ("next": done with the subscription, "send": sendUpdate).  A save already in
\* progress makes the call return at once.
Continue(s, tk, after) ==
    IF after = "send"
    THEN /\ tasks' = [tasks EXCEPT ![s] = [tk EXCEPT !.pc = "send", !.after = ""]]
         /\ sentCur' = sentCur
         /\ UNCHANGED <<lastCheckMap, reply, prevRec>>
    ELSE /\ Proceed(s, tk)
         /\ Completed(tk)
         /\ UNCHANGED sentCur

EnterSave(s, tk, after) ==
    IF saving
    THEN /\ Continue(s, tk, after)
         /\ UNCHANGED saving
    ELSE /\ saving' = TRUE
         /\ tasks' = [tasks EXCEPT ![s] = [tk EXCEPT !.pc = "mkdir", !.after = after]]
         /\ UNCHANGED <<lastCheckMap, reply, histVars>>


\* sendUpdate is entered by the handler tk of slot s
StartSend(s, tk) ==
    /\ tasks' = [tasks EXCEPT ![s] = [tk EXCEPT !.pc = "send", !.after = ""]]
    /\ sentCur' = IF /\ ~(tk.kind = "manual" /\ tk.force)
                     /\ tk.latest = getLatest(upstream, tk.cur.platform, tk.cur.projectId)
                  THEN Put(sentCur, KeyOf(tk.cur),
                           IF KeyOf(tk.cur) \in DOMAIN sentCur /\ sentCur[KeyOf(tk.cur)] >= 1
                           THEN 2 ELSE 1)
                  ELSE sentCur
    /\ UNCHANGED <<saving, lastCheckMap, reply, prevRec>>

\* Faulty variants of Classify, against which the properties of the change detector
\* are tested: the first check of a subscription notifies; an empty lastVersion is
\* compared like any other; the comparison comes before the force flag.
ClassifySeedNotifies(has, last, v, forced) ==
    IF ~has THEN "seedSend"
    ELSE IF forced THEN "send"
    ELSE IF Falsy(last) THEN "repair"
    ELSE IF v = last THEN "same"
    ELSE "send"
ClassifyNoRepair(has, last, v, forced) ==
    IF ~has THEN (IF forced THEN "seedSend" ELSE "seed")
    ELSE IF forced THEN "send"
    ELSE IF v = last THEN "same"
    ELSE "send"
ClassifyCompareFirst(has, last, v, forced) ==
    IF ~has THEN (IF forced THEN "seedSend" ELSE "seed")
    ELSE IF Falsy(last) THEN "repair"
    ELSE IF v = last THEN "same"
    ELSE "send"

\* A further faulty variant: an entry with an empty lastVersion is left as it is.
ClassifyRepairSkips(has, last, v, forced) ==
    IF ~has THEN (IF forced THEN "seedSend" ELSE "seed")
    ELSE IF forced THEN "send"
    ELSE IF Falsy(last) THEN "same"
    ELSE IF v = last THEN "same"
    ELSE "send"

\* The decision of checkOnce (notify.ts:414-432) and checkOne (notify.ts:450-475) on a
\* fetched label v: has and last are the state entry getState returned, forced is
\* forceSendAll.  "seed": create the entry; "seedSend": create it, then notify;
\* "repair": fill an empty lastVersion; "same": nothing to do; "send": notify, then update.
Classify(has, last, v, forced) ==
    IF ~has THEN (IF forced THEN "seedSend" ELSE "seed")
    ELSE IF forced THEN "send"
    ELSE IF Falsy(last) THEN "repair"
    ELSE IF v = last THEN "same"
    ELSE "send"

\* The change detector: what checkOnce and checkOne do with the record tk.latest once
\* getState has returned, cache being the state cache getState read.
Decide(s, tk, cache) ==
    LET key == KeyOf(tk.cur)
        v == tk.latest.version
        manual == tk.kind = "manual"
        class == Classify(key \in DOMAIN cache, IF key \in DOMAIN cache THEN cache[key] ELSE UNDEF,
                          v, manual /\ tk.force)
    IN  CASE class = "seed" ->
                /\ stateCache' = Put(cache, key, OrEmpty(v))
                /\ EnterSave(s, tk, "next")
          [] class = "seedSend" ->
                /\ stateCache' = Put(cache, key, OrEmpty(v))
                /\ EnterSave(s, tk, "send")
          [] class = "repair" ->
                /\ stateCache' = Put(cache, key, IF manual THEN OrEmpty(v) ELSE v)
                /\ EnterSave(s, tk, "next")
          [] class = "same" ->
                /\ stateCache' = cache
                /\ Proceed(s, tk)
                /\ Completed(tk)
                /\ UNCHANGED <<saving, sentCur>>
          [] OTHER ->
                /\ stateCache' = cache
                /\ StartSend(s, tk)

\* stats.failed += 1 of checkOnce, in the catch of the loop body and where the fetcher
\* returned null; of the tallies of a pass the record keeps this one (notify.check
\* keeps none)
CountFailed(tk) == IF tk.kind = "pass" THEN [tk EXCEPT !.failed = @ + 1] ELSE tk

\* A faulty variant of FetchReturn, against which the handling of an empty result is
\* tested: a null result goes on to the change detector as a record without a label.
FetchReturnNullIsRecord(s, outcome) ==
    LET tk == tasks[s]
        rec == getLatest(upstream, tk.cur.platform, tk.cur.projectId)
        got == [tk EXCEPT !.latest = rec]
    IN  /\ tk.pc = "fetch"
        /\ IF outcome = "throw"
           THEN /\ Proceed(s, CountFailed(tk))
                /\ UNCHANGED <<stVars, histVars>>
           ELSE IF stateLoaded
           THEN /\ Decide(s, got, stateCache)
                /\ UNCHANGED <<stateLoaded, stFile, savedState>>
           ELSE /\ stateLoaded' = TRUE
                /\ tasks' = [tasks EXCEPT ![s] = [got EXCEPT !.pc = "load"]]
                /\ UNCHANGED <<stateCache, saving, stFile, savedState, lastCheckMap,
                               reply, histVars>>
        /\ UNCHANGED <<now, plugin, loading, botVars, searchVars, cfgVars, upstream, timers, restarts>>

\* The fetch of slot s returns: outcome "ok" is a parsed response, "throw" a
\* transport error, a timeout or a non-success status (fetchJson).
FetchReturn(s, outcome) ==
    LET tk == tasks[s]
        rec == getLatest(upstream, tk.cur.platform, tk.cur.projectId)
        got == [tk EXCEPT !.latest = rec]
    IN  /\ tk.pc = "fetch"
        /\ IF outcome = "throw" \/ rec = NoRec
           THEN /\ Proceed(s, CountFailed(tk))
                /\ UNCHANGED <<stVars, histVars>>
           ELSE IF stateLoaded
           THEN /\ Decide(s, got, stateCache)
                /\ UNCHANGED <<stateLoaded, stFile, savedState>>
           ELSE /\ stateLoaded' = TRUE
                /\ tasks' = [tasks EXCEPT ![s] = [got EXCEPT !.pc = "load"]]
                /\ UNCHANGED <<stateCache, saving, stFile, savedState, lastCheckMap,
                               reply, histVars>>
        /\ UNCHANGED <<now, plugin, loading, botVars, searchVars, cfgVars, upstream, timers, restarts>>

\* The read of the state file that slot s started returns (loadStateFromFile)
LoadReturn(s) ==
    LET tk == tasks[s]
    IN  /\ tk.pc = "load"
        /\ Decide(s, tk, loadStateFromFile(stateCache, stFile))
        /\ UNCHANGED <<stateLoaded, stFile, savedState>>
        /\ UNCHANGED <<now, plugin, loading, botVars, searchVars, cfgVars, upstream, timers, restarts>>

\* sendUpdate of slot s returns; it catches whatever its fetches, the renderer and the
\* delivery throw, so the caller goes on to updateState either way
SendReturn(s, delivered) ==
    LET tk == tasks[s]
        manual == tk.kind = "manual"
        done == [tk EXCEPT !.sendOk = IF delivered THEN "delivered" ELSE "failed",
                           !.sent = IF manual THEN @ + 1 ELSE @]
    IN  /\ tk.pc = "send"
        /\ stateCache' = Put(stateCache, KeyOf(tk.cur),
                             IF manual THEN OrEmpty(tk.latest.version) ELSE tk.latest.version)
        /\ EnterSave(s, done, "next")
        /\ UNCHANGED <<stateLoaded, stFile, savedState>>
        /\ UNCHANGED <<now, plugin, loading, botVars, searchVars, cfgVars, upstream, timers, restarts>>

\* A faulty variant of MkdirReturn, against which the content of the written file is
\* tested: the loop over stateCache.entries() is left out.
MkdirReturnEmptyObject(s) ==
    LET tk == tasks[s]
    IN  /\ tk.pc = "mkdir"
        /\ tasks' = [tasks EXCEPT ![s] = [tk EXCEPT !.pc = "write", !.buf = EmptyMap]]
        /\ UNCHANGED <<now, plugin, loading, botVars, searchVars, cfgVars, stVars, lastCheckMap, upstream, timers, reply,
                       restarts, histVars>>

\* saveStateToFile of slot s: mkdir returned, the object to write is built from the cache
MkdirReturn(s) ==
    LET tk == tasks[s]
    IN  /\ tk.pc = "mkdir"
        /\ tasks' = [tasks EXCEPT ![s] = [tk EXCEPT !.pc = "write", !.buf = stateCache]]
        /\ UNCHANGED <<now, plugin, loading, botVars, searchVars, cfgVars, stVars, lastCheckMap, upstream, timers, reply,
                       restarts, histVars>>

\* A faulty variant of WriteReturn, against which the reset of the flag is tested:
\* saving = false stands after the writeFile, inside the try.
WriteReturnResetInTry(s, w) ==
    LET tk == tasks[s]
        back == [tk EXCEPT !.buf = EmptyMap, !.after = ""]
    IN  /\ tk.pc = "write"
        /\ saving' = ~w
        /\ stFile' = IF w THEN StateJson(tk.buf) ELSE stFile
        /\ savedState' = IF w THEN [has |-> TRUE, map |-> tk.buf] ELSE savedState
        /\ Continue(s, back, tk.after)
        /\ UNCHANGED <<stateCache, stateLoaded>>
        /\ UNCHANGED <<now, plugin, loading, botVars, searchVars, cfgVars, upstream, timers, restarts>>

\* A faulty variant of WriteReturn, against which the handling of a failed write is
\* tested: saveStateToFile has no catch, the error ends the check of the subscription.
WriteReturnThrows(s, w) ==
    LET tk == tasks[s]
        back == [tk EXCEPT !.buf = EmptyMap, !.after = ""]
    IN  /\ tk.pc = "write"
        /\ saving' = FALSE
        /\ stFile' = IF w THEN StateJson(tk.buf) ELSE stFile
        /\ savedState' = IF w THEN [has |-> TRUE, map |-> tk.buf] ELSE savedState
        /\ Continue(s, back, IF w THEN tk.after ELSE "next")
        /\ UNCHANGED <<stateCache, stateLoaded>>
        /\ UNCHANGED <<now, plugin, loading, botVars, searchVars, cfgVars, upstream, timers, restarts>>

\* saveStateToFile of slot s: writeFile returned, w being whether it succeeded
WriteReturn(s, w) ==
    LET tk == tasks[s]
        back == [tk EXCEPT !.buf = EmptyMap, !.after = ""]
    IN  /\ tk.pc = "write"
        /\ saving' = FALSE
        /\ stFile' = IF w THEN StateJson(tk.buf) ELSE stFile
        /\ savedState' = IF w THEN [has |-> TRUE, map |-> tk.buf] ELSE savedState
        /\ Continue(s, back, tk.after)
        /\ UNCHANGED <<stateCache, stateLoaded>>
        /\ UNCHANGED <<now, plugin, loading, botVars, searchVars, cfgVars, upstream, timers, restarts>>


\* ------------------------------------------------------------------ scheduler
NoTimers == [armed |-> FALSE, startupPending |-> FALSE, startup |-> 0, tick |-> 0]

\* is a timer due that has not fired
TimerDue == \/ ~timers.armed
            \/ (timers.startupPending /\ now >= timers.startup)
            \/ now >= timers.tick

\* ctx.on('ready'): startAutoCheck loads the config and arms the start-up timeout and
\* the base tick
StartAutoCheck(w) ==
    LET L == loadConfigFromFile(config, configLoaded, cfgFile, w)
    IN  /\ ~timers.armed
        /\ Outcome(L.config, L.file, L.wrote, reply)
        /\ timers' = [armed |-> TRUE, startupPending |-> TRUE,
                      startup |-> now + StartupDelay, tick |-> now + BaseTick]
        /\ UNCHANGED <<now, plugin, loading, botVars, searchVars, stVars, lastCheckMap, upstream, tasks, restarts, histVars>>

\* no readFile of the config file is awaited
NoLoad == [active |-> FALSE, file |-> NoCfgFile]

\* ctx.on('ready') with the await in loadConfigFromFile made visible: startAutoCheck
\* enters loadConfigFromFile, which sets configLoaded and then awaits readFile; file is
\* what the file holds when the read is issued
StartAutoCheckBegins ==
    /\ ~timers.armed
    /\ ~configLoaded
    /\ ~loading.active
    /\ configLoaded' = TRUE
    /\ loading' = [active |-> TRUE, file |-> cfgFile]
    /\ UNCHANGED <<now, plugin, botVars, searchVars, config, cfgFile, savedGroups, stVars, lastCheckMap,
                   upstream, tasks, timers, reply, restarts, histVars>>

\* readFile returns to loadConfigFromFile, which applies the content to config (or
\* takes its catch branch), and startAutoCheck arms its timers.  The content is the
\* file as it was when the read was issued, or (fresh) as a command has written it
\* since; w is whether the write of the catch branch succeeds.
StartAutoCheckLoaded(fresh, w) ==
    LET content == IF fresh THEN cfgFile ELSE loading.file
        L == loadConfigFromFile(config, FALSE, content, w)
    IN  /\ loading.active
        /\ loading' = NoLoad
        /\ config' = L.config
        /\ cfgFile' = IF L.wrote THEN L.file ELSE cfgFile
        /\ savedGroups' = IF L.wrote THEN [has |-> TRUE, groups |-> getConfigGroups(L.config)]
                          ELSE savedGroups
        /\ timers' = [armed |-> TRUE, startupPending |-> TRUE,
                      startup |-> now + StartupDelay, tick |-> now + BaseTick]
        /\ UNCHANGED <<now, plugin, botVars, searchVars, configLoaded, stVars, lastCheckMap, upstream,
                       tasks, reply, restarts, histVars>>

\* autoCheckLoop, run by the start-up timeout (which = "startup") or by the base tick
\* (which = "tick"), in slot s: checkOnce() begins when the engine is enabled and
\* getConfigSubs() is not empty
\* A faulty variant of AutoCheckLoop, against which the recurrence of the passes is
\* tested: the base tick is a timeout that is not set again.
AutoCheckLoopOneShot(s, which) ==
    LET subs == getConfigSubs(getConfigGroups(config), "", plugin.interval)
        pass == [Idle EXCEPT !.kind = "pass", !.queue = subs]
    IN  /\ timers.armed
        /\ IF which = "startup"
           THEN /\ timers.startupPending
                /\ now >= timers.startup
                /\ timers' = [timers EXCEPT !.startupPending = FALSE]
           ELSE /\ now >= timers.tick
                /\ timers' = [timers EXCEPT !.tick = now + 1000 * BaseTick]
        /\ IF config.enabled = ON /\ subs # <<>>
           THEN /\ tasks[s].kind = "idle"
                /\ Proceed(s, pass)
           ELSE /\ s = CHOOSE x \in Slots : TRUE
                /\ UNCHANGED <<tasks, lastCheckMap, reply>>
        /\ UNCHANGED <<now, plugin, loading, botVars, searchVars, cfgVars, stVars, upstream, restarts, histVars>>

AutoCheckLoop(s, which) ==
    LET subs == getConfigSubs(getConfigGroups(config), "", plugin.interval)
        pass == [Idle EXCEPT !.kind = "pass", !.queue = subs]
    IN  /\ timers.armed
        /\ IF which = "startup"
           THEN /\ timers.startupPending
                /\ now >= timers.startup
                /\ timers' = [timers EXCEPT !.startupPending = FALSE]
           ELSE /\ now >= timers.tick
                /\ timers' = [timers EXCEPT !.tick = now + BaseTick]
        /\ IF config.enabled = ON /\ subs # <<>>
           THEN /\ tasks[s].kind = "idle"
                /\ Proceed(s, pass)
           ELSE /\ s = CHOOSE x \in Slots : TRUE
                /\ UNCHANGED <<tasks, lastCheckMap, reply>>
        /\ UNCHANGED <<now, plugin, loading, botVars, searchVars, cfgVars, stVars, upstream, restarts, histVars>>

\* Number(arg) for the arguments of the model: <<n>> or <<>> (NaN)
ToNumber(arg) == CASE arg = "1" -> <<1>>
                   [] arg = "2" -> <<2>>
                   [] arg = "3" -> <<3>>
                   [] OTHER -> <<>>
CheckArgs == {"", "1", "2", "3", "p1"}

\* notify.check [arg] with or without -b, handled in slot s
\*   BadIndex '未找到对应序号的订阅。'   BadId '未找到对应项目 ID 的订阅。'
NotifyCheck(s, channelId, arg, broadcast, roleLevel, w) ==
    LET L == loadConfigFromFile(config, configLoaded, cfgFile, w)
        list == getConfigSubsOrdered(getConfigGroups(L.config), channelId, plugin.interval)
        idx == ToNumber(arg)
        byId == {k \in 1..Len(list) : list[k].projectId = arg}
        first == CHOOSE k \in byId : \A j \in byId : k <= j
        targets == IF arg = "" THEN list
                   ELSE IF idx # <<>> /\ idx[1] > 0 THEN <<list[idx[1]]>>
                   ELSE <<list[first]>>
        check == [Idle EXCEPT !.kind = "manual", !.force = broadcast, !.queue = targets]
        rejected(tag) == /\ Outcome(L.config, L.file, L.wrote, Reply(tag))
                         /\ UNCHANGED <<tasks, lastCheckMap>>
    IN  /\ tasks[s].kind = "idle"
        /\ IF channelId = NoChannel THEN rejected("NoChannel")
           ELSE IF ~requireManage(plugin.adminAuthority, roleLevel) THEN rejected("Denied")
           ELSE IF list = <<>> THEN rejected("NoSubs")
           ELSE IF arg # "" /\ idx # <<>> /\ idx[1] > 0 /\ idx[1] > Len(list)
           THEN rejected("BadIndex")
           ELSE IF arg # "" /\ ~(idx # <<>> /\ idx[1] > 0) /\ byId = {}
           THEN rejected("BadId")
           ELSE /\ config' = L.config
                /\ configLoaded' = TRUE
                /\ cfgFile' = L.file
                /\ savedGroups' = IF L.wrote
                                  THEN [has |-> TRUE, groups |-> getConfigGroups(L.config)]
                                  ELSE savedGroups
                /\ Proceed(s, check)
        /\ UNCHANGED <<now, plugin, loading, botVars, searchVars, stVars, upstream, timers, restarts, histVars>>

\* ------------------------------------------------------------------ delivery
\* the bot connections of the host at most
MaxBots == 3
BotPlatforms == {"onebot", "discord"}

\* channelId.indexOf(':'): the position of the first colon, counted from 0, or -1
IndexOfColon(str) ==
    IF \E i \in 1..Len(str) : SubSeq(str, i, i) = ":"
    THEN (CHOOSE i \in 1..Len(str) :
             /\ SubSeq(str, i, i) = ":"
             /\ \A j \in 1..(i - 1) : SubSeq(str, j, j) # ":") - 1
    ELSE -1
NoParse == [platform |-> "", id |-> ""]
\* parseChannelId: null (NoParse) when there is no colon or it comes first
parseChannelId(channelId) ==
    LET idx == IndexOfColon(channelId)
    IN  IF idx <= 0 THEN NoParse
        ELSE [platform |-> SubSeq(channelId, 1, idx),
              id |-> SubSeq(channelId, idx + 2, Len(channelId))]

\* one call of bot.sendMessage: the connection, the id it was given, and whether the
\* call returned (ok) or threw
Attempt(bot, id, ok) == [bot |-> bot, id |-> id, ok |-> ok]
RECURSIVE TryInOrder(_, _, _, _)
\* for (const bot of ctx.bots) try { await bot.sendMessage(...); return true } catch {}
TryInOrder(k, bs, channelId, works) ==
    IF k > Len(bs) THEN <<>>
    ELSE IF works[k] THEN <<Attempt(k, channelId, TRUE)>>
    ELSE <<Attempt(k, channelId, FALSE)>> \o TryInOrder(k + 1, bs, channelId, works)

NoDelivery == [channelId |-> "", bots |-> <<>>, attempts |-> <<>>, result |-> ""]
\* sendToChannel(channelId, content) over the connections bs, works[k] telling whether
\* sendMessage of connection k returns: the connections, the calls made and the outcome, "true" or
\* "false" returned or "throw"
sendToChannel(channelId, bs, works) ==
    LET parsed == parseChannelId(channelId)
        found == {k \in 1..Len(bs) : bs[k] = parsed.platform}
        bot == CHOOSE k \in found : \A j \in found : k <= j
        tried == TryInOrder(1, bs, channelId, works)
    IN  IF parsed # NoParse /\ found # {}
        THEN [channelId |-> channelId, bots |-> bs, attempts |-> <<Attempt(bot, parsed.id, works[bot])>>,
              result |-> IF works[bot] THEN "true" ELSE "throw"]
        ELSE IF Len(bs) = 1
        THEN [channelId |-> channelId, bots |-> bs, attempts |-> <<Attempt(1, channelId, works[1])>>,
              result |-> IF works[1] THEN "true" ELSE "throw"]
        ELSE [channelId |-> channelId, bots |-> bs, attempts |-> tried,
              result |-> IF tried # <<>> /\ tried[Len(tried)].ok THEN "true" ELSE "false"]

\* sendToChannel is called for one image
SendToChannel(channelId, works) ==
    /\ delivery' = sendToChannel(channelId, bots, works)
    /\ UNCHANGED <<bots, now, plugin, loading, searchVars, cfgVars, stVars, lastCheckMap,
                   upstream, tasks, timers, reply, restarts, histVars>>

\* an adapter of the host connects a bot, or the bot it connected last goes away
Connect(platform) ==
    /\ Len(bots) < MaxBots
    /\ bots' = Append(bots, platform)
    /\ UNCHANGED <<delivery, now, plugin, loading, searchVars, cfgVars, stVars, lastCheckMap,
                   upstream, tasks, timers, reply, restarts, histVars>>
Disconnect ==
    /\ bots # <<>>
    /\ bots' = SubSeq(bots, 1, Len(bots) - 1)
    /\ UNCHANGED <<delivery, now, plugin, loading, searchVars, cfgVars, stVars, lastCheckMap,
                   upstream, tasks, timers, reply, restarts, histVars>>

\* ------------------------------------------------------------- search plugin
PAGE_SIZE == 10
\* session.cid of the sessions that talk to the search plugin
Cids == {"s1", "s2"}
\* Math.ceil(results.length / PAGE_SIZE)
PageCount(n) == (n + PAGE_SIZE - 1) \div PAGE_SIZE

\* An entry of searchStates.  pageIndex and page are <<n>> or <<>> (the property is
\* not there: the typed commands store pageIndex, the default command stores page).
NoSearch == [active |-> FALSE, results |-> 0, type |-> "", pageIndex |-> <<>>, page |-> <<>>]
NoShown == [kind |-> "", page |-> 0]
SearchInit ==
    /\ searchStates = [c \in Cids |-> NoSearch]
    /\ queue = <<>>
    /\ isProcessing = FALSE
    /\ executing = <<>>
    /\ rearm = 0
    /\ arrived = 0
    /\ shown = [c \in Cids |-> NoShown]

\* a queued task: a search of the typed or the default command with its result count,
\* a page turn with its input, a selection; outcome, newIndex and ref are what the
\* task has decided and holds once started; id is the rank of its queue.push
Task(cid, name, input, results) ==
    [cid |-> cid, name |-> name, input |-> input, results |-> results,
     outcome |-> "", newIndex |-> <<>>, ref |-> FALSE, id |-> 0]

\* a < b and a > b of JavaScript for a page index that may be undefined (NaN: false)
Less(a, b) == a # <<>> /\ a[1] < b
Greater(a, b) == a # <<>> /\ a[1] > b

\* The task runs up to its first await.  page-turn: reads searchStates, returns when
\* the session has none, else picks the new index or finds there is no further page.
\* select-item: returns when there is no state or the choice 1 is not on the page.
StartTask(task, states) ==
    LET st == states[task.cid]
        total == PageCount(st.results)
    IN  IF task.name = "page-turn"
        THEN IF ~st.active THEN [task EXCEPT !.outcome = "gone"]
             ELSE IF task.input = "n" /\ Less(st.pageIndex, total - 1)
             THEN [task EXCEPT !.outcome = "turn", !.newIndex = <<st.pageIndex[1] + 1>>,
                               !.ref = TRUE]
             ELSE IF task.input = "p" /\ Greater(st.pageIndex, 0)
             THEN [task EXCEPT !.outcome = "turn", !.newIndex = <<st.pageIndex[1] - 1>>,
                               !.ref = TRUE]
             ELSE [task EXCEPT !.outcome = "nomore", !.ref = TRUE]
        ELSE IF task.name = "select-item"
        THEN IF ~st.active THEN [task EXCEPT !.outcome = "gone"]
             ELSE IF Greater(st.pageIndex, 0) THEN [task EXCEPT !.outcome = "ignored"]
             ELSE [task EXCEPT !.outcome = "card"]
        ELSE [task EXCEPT !.outcome = "run"]

\* A faulty variant of processQueue, against which the exclusion of the tasks is tested:
\* isProcessing is not looked at.
processQueueNoFlag(q, processing, ex, states) ==
    IF q = <<>> THEN [queue |-> q, isProcessing |-> processing, executing |-> ex]
    ELSE [queue |-> Tail(q), isProcessing |-> TRUE,
          executing |-> Append(ex, StartTask(Head(q), states))]

\* A faulty variant of processQueue, against which the order of the starts is tested:
\* queue.pop() in the place of queue.shift().
processQueuePop(q, processing, ex, states) ==
    IF processing \/ q = <<>> THEN [queue |-> q, isProcessing |-> processing, executing |-> ex]
    ELSE [queue |-> SubSeq(q, 1, Len(q) - 1), isProcessing |-> TRUE,
          executing |-> Append(ex, StartTask(q[Len(q)], states))]

\* processQueue up to the await of the task: the queue, the flag and the tasks
\* started after the call
processQueue(q, processing, ex, states) ==
    IF processing \/ q = <<>> THEN [queue |-> q, isProcessing |-> processing, executing |-> ex]
    ELSE [queue |-> Tail(q), isProcessing |-> TRUE,
          executing |-> Append(ex, StartTask(Head(q), states))]

\* enqueue: queue.push, then processQueue()
enqueue(task) ==
    LET pushed == Append(queue, [task EXCEPT !.id = arrived + 1])
        r == processQueue(pushed, isProcessing, executing, searchStates)
    IN  /\ Len(queue) < MaxQueue
        /\ arrived < MaxArrivals
        /\ arrived' = arrived + 1
        /\ queue' = r.queue
        /\ isProcessing' = r.isProcessing
        /\ executing' = r.executing

\* the tasks in flight of the session no longer hold the object that is in searchStates
Detach(ex, cid) ==
    [k \in DOMAIN ex |-> IF ex[k].cid = cid THEN [ex[k] EXCEPT !.ref = FALSE] ELSE ex[k]]
\* the sequence without its k-th element
DropAt(seq, k) == SubSeq(seq, 1, k - 1) \o SubSeq(seq, k + 1, Len(seq))

\* cnmc.<type> <keyword> (typed) and cnmc <keyword>, the search finding n results
SearchCommand(cid, typed, n) ==
    /\ enqueue(Task(cid, IF typed THEN "search-type" ELSE "search-mod", "", n))
    /\ UNCHANGED <<searchStates, rearm, shown, notifyVars>>

\* the middleware on a message of a session that has a search state: q leaves the
\* list, n and p queue a page turn, 1 queues the selection of the first result
Middleware(cid, input) ==
    /\ searchStates[cid].active
    /\ IF input = "q"
       THEN /\ searchStates' = [searchStates EXCEPT ![cid] = NoSearch]
            /\ executing' = Detach(executing, cid)
            /\ shown' = [shown EXCEPT ![cid].kind = "quit"]
            /\ UNCHANGED <<queue, isProcessing, arrived>>
       ELSE /\ enqueue(Task(cid, IF input = "1" THEN "select-item" ELSE "page-turn", input, 0))
            /\ UNCHANGED <<searchStates, shown>>
    /\ UNCHANGED <<rearm, notifyVars>>

\* the timeout of a search state fires
Expire(cid) ==
    /\ searchStates[cid].active
    /\ searchStates' = [searchStates EXCEPT ![cid] = NoSearch]
    /\ executing' = Detach(executing, cid)
    /\ UNCHANGED <<queue, isProcessing, rearm, arrived, shown, notifyVars>>

\* The k-th started task returns; processQueue clears the flag and arms the timeout.
\* A search with one result sends the card; with more it replaces the session's state
\* and sends page 0.  A page turn sends the new page and stores the index in the
\* object it holds, or says there is no further page.  A selection sends the card and
\* clears the state.
TaskReturn(k) ==
    LET e == executing[k]
        rest == DropAt(executing, k)
        typedState == [active |-> TRUE, results |-> e.results, type |-> "data",
                       pageIndex |-> <<0>>, page |-> <<>>]
        defaultState == [active |-> TRUE, results |-> e.results, type |-> "mod",
                         pageIndex |-> <<>>, page |-> <<0>>]
    IN  /\ k \in DOMAIN executing
        /\ rearm < MaxTimers
        /\ CASE e.name \in {"search-type", "search-mod"} /\ e.results = 1 ->
                  /\ shown' = [shown EXCEPT ![e.cid].kind = "card"]
                  /\ executing' = rest
                  /\ UNCHANGED searchStates
             [] e.name \in {"search-type", "search-mod"} /\ e.results > 1 ->
                  /\ searchStates' = [searchStates EXCEPT ![e.cid] =
                        IF e.name = "search-type" THEN typedState ELSE defaultState]
                  /\ shown' = [shown EXCEPT ![e.cid] = [kind |-> "list", page |-> 0]]
                  /\ executing' = Detach(rest, e.cid)
             [] e.outcome = "turn" ->
                  /\ searchStates' = IF e.ref
                                     THEN [searchStates EXCEPT ![e.cid].pageIndex = e.newIndex]
                                     ELSE searchStates
                  /\ shown' = [shown EXCEPT ![e.cid] = [kind |-> "list", page |-> e.newIndex[1]]]
                  /\ executing' = rest
             [] e.outcome = "nomore" ->
                  /\ shown' = [shown EXCEPT ![e.cid].kind = "nomore"]
                  /\ executing' = rest
                  /\ UNCHANGED searchStates
             [] e.outcome = "card" ->
                  /\ searchStates' = [searchStates EXCEPT ![e.cid] = NoSearch]
                  /\ shown' = [shown EXCEPT ![e.cid].kind = "card"]
                  /\ executing' = Detach(rest, e.cid)
             [] OTHER ->
                  /\ executing' = rest
                  /\ UNCHANGED <<searchStates, shown>>
        /\ isProcessing' = FALSE
        /\ rearm' = rearm + 1
        /\ UNCHANGED <<queue, arrived, notifyVars>>

\* A faulty variant of TimerFires, against which the progress of the queue is tested:
\* the timeout of the finally block calls nothing.
TimerFiresIdle ==
    /\ rearm > 0
    /\ rearm' = rearm - 1
    /\ UNCHANGED <<queue, isProcessing, executing, searchStates, arrived, shown, notifyVars>>

\* setTimeout(processQueue, 500) fires
TimerFires ==
    LET r == processQueue(queue, isProcessing, executing, searchStates)
    IN  /\ rearm > 0
        /\ rearm' = rearm - 1
        /\ queue' = r.queue
        /\ isProcessing' = r.isProcessing
        /\ executing' = r.executing
        /\ UNCHANGED <<searchStates, arrived, shown, notifyVars>>


\* ---------------------------------------------------------------- environment
\* a platform publishes a release of a project
Publish(platform, projectId, label) ==
    LET project == ProjectKey(platform, projectId)
    IN  /\ project \in Tracked
        /\ label \in LabelsOf(project)
        /\ upstream[project].versionId < MaxReleases
        /\ upstream' = [upstream EXCEPT ![project] =
                            [versionId |-> @.versionId + 1, version |-> label]]
        /\ sentCur' = [k \in DOMAIN sentCur |->
                          IF \E c \in Channels : k = getStateKey(c, platform, projectId)
                          THEN 0 ELSE sentCur[k]]
        /\ UNCHANGED <<now, plugin, loading, botVars, searchVars, cfgVars, stVars, lastCheckMap, tasks, timers, reply,
                       restarts, prevRec>>

\* time passes; a timer that is due fires before it does
AdvanceWithin(steps) ==
    /\ ~TimerDue
    /\ now < StartTime + steps * TimeStep
    /\ now' = now + TimeStep
    /\ UNCHANGED <<plugin, loading, botVars, searchVars, cfgVars, stVars, lastCheckMap, upstream, tasks, timers, reply,
                   restarts, histVars>>
Advance == AdvanceWithin(MaxClock)

\* the in-memory config a process starts with
FreshConfig == [enabled |-> plugin.enabled, hasGroups |-> plugin.hasGroups,
                groups |-> plugin.groups]

\* the process stops and starts again: the files stay, everything in memory is new
Restart ==
    /\ restarts < MaxRestarts
    /\ restarts' = restarts + 1
    /\ config' = FreshConfig
    /\ configLoaded' = FALSE
    /\ loading' = NoLoad
    /\ delivery' = NoDelivery
    /\ stateCache' = EmptyMap
    /\ stateLoaded' = FALSE
    /\ saving' = FALSE
    /\ lastCheckMap' = EmptyMap
    /\ tasks' = [s \in Slots |-> Idle]
    /\ timers' = NoTimers
    /\ reply' = NoReply
    /\ prevRec' = EmptyMap
    /\ searchStates' = [c \in Cids |-> NoSearch]
    /\ queue' = <<>>
    /\ isProcessing' = FALSE
    /\ executing' = <<>>
    /\ rearm' = 0
    /\ arrived' = 0
    /\ shown' = [c \in Cids |-> NoShown]
    /\ UNCHANGED <<now, plugin, bots, cfgFile, stFile, upstream, sentCur, savedGroups, savedState>>


\* ------------------------------------------------------------- initial states
\* the config the host hands to apply()
PluginDefault == [enabled |-> ON, hasGroups |-> FALSE, groups |-> <<>>,
                  interval |-> <<>>, adminAuthority |-> <<>>]
\* everyone may manage, subscriptions added by command are checked every two minutes
PluginOpen == [PluginDefault EXCEPT !.interval = <<2 * MinInterval>>, !.adminAuthority = <<1>>]
\* a global interval below the floor
PluginQuick == [PluginDefault EXCEPT !.interval = <<TimeStep>>]
\* groups given in the host's config, admins may manage
PluginGroups == [PluginDefault EXCEPT !.hasGroups = TRUE,
                    !.groups = <<Group("c2", UNDEF, <<Sub("cf", "2", <<>>)>>)>>,
                    !.adminAuthority = <<2>>]

\* config files found at the first start
CfgTwoSubs == CfgFile(ON, <<Group("c1", ON, <<Sub("mr", "p1", <<MinInterval>>),
                                                Sub("cf", "2", <<2 * MinInterval>>)>>)>>)
CfgOneSub == CfgFile(ON, <<Group("c1", ON, <<Sub("mr", "p1", <<MinInterval>>)>>)>>)
\* written by hand: an id with a blank, an unknown platform, intervals that are unset,
\* zero and below the floor, the same pair twice
CfgByHand == CfgFile(ON, <<Group("c1", UNDEF, <<Sub("mr", " p1", <<>>), Sub("xx", "p1", <<MinInterval>>),
                                                  Sub("cf", "2", <<0>>), Sub("mr", "p1", <<30000>>)>>)>>)
\* the engine and the group switched off, the id kept with the blank it was typed with
CfgDisabled == CfgFile(OFF, <<Group("c2", OFF, <<Sub("mr", " p1", <<MinInterval>>)>>)>>)
\* valid JSON without the two fields
CfgNoFields == [ok |-> TRUE, enabled |-> UNDEF, hasGroups |-> FALSE, groups |-> <<>>]

K1 == getStateKey("c1", "mr", "p1")
K2 == getStateKey("c1", "cf", "2")
\* a state file with the given JSON values
StateOf(m) == [ok |-> TRUE, map |-> m]

\* starts: the host's config, the config file, the state file and the label of the
\* release of mr:p1 found at the first start
InitWith(starts) ==
    /\ now = StartTime
    /\ \E st \in starts :
          /\ plugin = st[1]
          /\ cfgFile = st[2]
          /\ stFile = st[3]
          /\ upstream = [p \in Tracked |->
                IF p = "mr:p1" THEN [versionId |-> 1, version |-> st[4]] ELSE NoRec]
    /\ config = [enabled |-> plugin.enabled, hasGroups |-> plugin.hasGroups,
                 groups |-> plugin.groups]
    /\ configLoaded = FALSE
    /\ loading = NoLoad
    /\ bots = <<>>
    /\ delivery = NoDelivery
    /\ stateCache = EmptyMap
    /\ stateLoaded = FALSE
    /\ saving = FALSE
    /\ lastCheckMap = EmptyMap
    /\ tasks = [s \in Slots |-> Idle]
    /\ timers = NoTimers
    /\ reply = NoReply
    /\ restarts = 0
    /\ sentCur = EmptyMap
    /\ prevRec = EmptyMap
    /\ savedGroups = [has |-> FALSE, groups |-> <<>>]
    /\ savedState = [has |-> FALSE, map |-> EmptyMap]
    /\ SearchInit

\* ------------------------------------------------------------- specifications
\* the lowest slot that is free, for the handler that begins
FreeSlot(s) == tasks[s].kind = "idle" /\ \A x \in Slots : tasks[x].kind = "idle" => s = "a" \/ x # "a"

\* the steps of the handlers in flight
HandlerStep ==
    \/ \E s \in Slots, outcome \in {"ok", "throw"} : FetchReturn(s, outcome)
    \/ \E s \in Slots : LoadReturn(s)
    \/ \E s \in Slots, delivered \in BOOLEAN : SendReturn(s, delivered)
    \/ \E s \in Slots : MkdirReturn(s)
    \/ \E s \in Slots : WriteReturn(s, TRUE)

\* The commands given: every valid pair on every channel by an owner, and one command
\* for each way a command can be refused or needs its arguments normalised
\* <<channelId, platform, projectId, role level>>
PairArgs == {<<c, p, "p1", 3>> : c \in Channels, p \in {"mr", "cf"}}
            \cup {<<"c2", "cf", "p1", 2>>, <<"c1", "mr", "p1", 0>>, <<"c2", "mr", "p1", 0>>,
                  <<"c1", "mr", " p1", 3>>, <<NoChannel, "mr", "p1", 3>>,
                  <<"c1", "xx", "p1", 3>>, <<"c1", "", "p1", 3>>,
                  <<"c1", "mr", " ", 3>>, <<"c1", "mr", "", 3>>}
\* <<channelId, onoff, role level>>
EnableArgs == {<<c, o, 3>> : c \in Channels, o \in {"on", "off"}}
              \cup {<<"c1", "maybe", 3>>, <<"c1", "off", 0>>, <<"c2", "off", 2>>,
                    <<NoChannel, "on", 3>>}
\* <<channelId, role level>>
ListArgs == {<<c, 3>> : c \in Channels} \cup {<<"c1", 0>>, <<"c2", 2>>, <<NoChannel, 3>>}

ConfigCommand ==
    \/ \E a \in PairArgs : NotifyAdd(a[1], a[2], a[3], a[4], TRUE)
    \/ \E a \in PairArgs : NotifyRemove(a[1], a[2], a[3], a[4], TRUE)
    \/ \E a \in ListArgs : NotifyList(a[1], a[2], TRUE)
    \/ \E a \in EnableArgs : NotifyEnable(a[1], a[2], a[3], TRUE)

\* The config store and the commands on it, from the configs a first start can find
InitCfg == InitWith({<<PluginDefault, NoCfgFile, NoStateFile, "v1">>,
                     <<PluginGroups, NoCfgFile, NoStateFile, "v1">>,
                     <<PluginGroups, CfgNoFields, NoStateFile, "v1">>,
                     <<PluginOpen, CfgTwoSubs, NoStateFile, "v1">>,
                     <<PluginOpen, CfgByHand, NoStateFile, "v1">>,
                     <<PluginDefault, CfgDisabled, NoStateFile, "v1">>})
NextCfg ==
    \/ ConfigCommand
    \/ StartAutoCheck(TRUE)
SpecCfg == InitCfg /\ [][NextCfg]_vars

\* One handler at a time: a pass or a notify.check begins when no other is in flight
InitSeq == InitWith({<<PluginOpen, CfgTwoSubs, sf, l>> :
                        sf \in {NoStateFile, StateOf(Put(EmptyMap, K1, <<"v1">>))}, l \in Labels}
                    \cup {<<PluginOpen, CfgTwoSubs,
                            StateOf(Put(Put(EmptyMap, K1, <<>>), K2, NotObject)), "v1">>})
NextSeq ==
    \/ StartAutoCheck(TRUE)
    \/ Busy = {} /\ \E which \in {"startup", "tick"} : AutoCheckLoop("a", which)
    \/ Busy = {} /\ \E a \in CheckArgs, b \in BOOLEAN : NotifyCheck("a", "c1", a, b, 3, TRUE)
    \/ HandlerStep
    \/ \E l \in Labels : Publish("mr", "p1", l)
    \/ Advance
SpecSeq == InitSeq /\ [][NextSeq]_vars

\* Handlers interleave at their awaits
Init == InitWith({<<PluginOpen, CfgOneSub, sf, "v1">> :
                     sf \in {NoStateFile, StateOf(Put(EmptyMap, K1, <<"v1">>))}})
Next ==
    \/ StartAutoCheck(TRUE)
    \/ \E s \in Slots, which \in {"startup", "tick"} : FreeSlot(s) /\ AutoCheckLoop(s, which)
    \/ \E s \in Slots, b \in BOOLEAN : FreeSlot(s) /\ NotifyCheck(s, "c1", "", b, 3, TRUE)
    \/ HandlerStep
    \/ Publish("mr", "p1", "v2")
    \/ Advance
Spec == Init /\ [][Next]_vars

\* Passes one at a time, a command that saves the config, and restarts between the
\* handlers
InitBoot == InitWith({<<PluginOpen, CfgTwoSubs, NoStateFile, "v1">>,
                      <<PluginOpen, CfgTwoSubs, StateOf(Put(EmptyMap, K1, <<"v1">>)), UNDEF>>})
NextBoot ==
    \/ StartAutoCheck(TRUE)
    \/ Busy = {} /\ \E which \in {"startup", "tick"} : AutoCheckLoop("a", which)
    \/ \E outcome \in {"ok", "throw"} : FetchReturn("a", outcome)
    \/ LoadReturn("a")
    \/ \E delivered \in BOOLEAN : SendReturn("a", delivered)
    \/ MkdirReturn("a")
    \/ WriteReturn("a", TRUE)
    \/ Busy = {} /\ NotifyEnable("c2", "off", 3, TRUE)
    \/ Publish("mr", "p1", "v2")
    \/ Publish("cf", "2", "v1")
    \/ Advance
    \/ Busy = {} /\ Restart
SpecBoot == InitBoot /\ [][NextBoot]_vars

\* Passes and manual checks one at a time over configs made by the commands and by
\* hand, with notify.enable arriving at any await of a pass and notify.list between
\* the handlers
InitHand == InitWith({<<PluginOpen, CfgTwoSubs, NoStateFile, "v1">>,
                      <<PluginOpen, CfgByHand, NoStateFile, "v1">>,
                      <<PluginQuick, CfgDisabled, NoStateFile, "v1">>})
NextHand ==
    \/ StartAutoCheck(TRUE)
    \/ Busy = {} /\ \E which \in {"startup", "tick"} : AutoCheckLoop("a", which)
    \/ Busy = {} /\ \E a \in CheckArgs, b \in BOOLEAN : NotifyCheck("a", "c1", a, b, 3, TRUE)
    \/ \E outcome \in {"ok", "throw"} : FetchReturn("a", outcome)
    \/ LoadReturn("a")
    \/ SendReturn("a", TRUE)
    \/ MkdirReturn("a")
    \/ WriteReturn("a", TRUE)
    \/ NotifyEnable("c1", "off", 3, TRUE)
    \/ Busy = {} /\ \E c \in Channels : NotifyEnable(c, "on", 3, TRUE)
    \/ Busy = {} /\ \E c \in Channels : NotifyList(c, 3, TRUE)
    \/ Busy = {} /\ NotifyAdd("c1", "cf", "2", 3, TRUE)
    \/ Publish("cf", "2", "v1")
    \/ Advance
SpecHand == InitHand /\ [][NextHand]_vars

\* The commands as callers of every role level give them, well-formed and not, under
\* each threshold, between passes and manual checks
\* <<channelId, platform, projectId, role level>>
GuardPairArgs == {<<"c1", "mr", "p1", r>> : r \in 0..3}
                 \cup {<<"c2", "cf", "2", r>> : r \in {1, 3}}
                 \cup {<<NoChannel, "mr", "p1", 3>>, <<"c2", "xx", "p1", 3>>,
                       <<"c2", "xx", "p1", 0>>, <<"c2", "", "p1", 3>>,
                       <<"c2", "mr", " ", 3>>, <<"c2", "mr", "", 3>>}
\* <<channelId, onoff, role level>>
GuardEnableArgs == {<<"c1", "off", r>> : r \in 0..3}
                   \cup {<<"c2", "on", 2>>, <<"c2", "maybe", 3>>, <<"c1", "maybe", 3>>,
                         <<NoChannel, "on", 3>>}
\* <<channelId, role level>>
GuardListArgs == {<<"c1", r>> : r \in 0..3} \cup {<<NoChannel, 3>>}
\* <<channelId, arg, broadcast, role level>>
GuardCheckArgs == {<<"c1", "", FALSE, r>> : r \in 0..3}
                  \cup {<<"c1", "1", TRUE, 1>>, <<"c1", "3", FALSE, 3>>,
                        <<"c1", "zz", FALSE, 3>>, <<"c2", "1", FALSE, 3>>,
                        <<NoChannel, "", FALSE, 3>>}
\* Number(config.adminAuthority ?? 3) is 0: everyone may manage
PluginAnyone == [PluginDefault EXCEPT !.adminAuthority = <<0>>]
InitGuard == InitWith({<<PluginOpen, CfgTwoSubs, StateOf(Put(EmptyMap, K1, <<"v1">>)), "v1">>,
                       <<PluginAnyone, CfgOneSub, NoStateFile, "v1">>,
                       <<PluginGroups, CfgOneSub, NoStateFile, "v1">>,
                       <<PluginDefault, CfgTwoSubs, StateOf(Put(EmptyMap, K1, <<"v1">>)), "v1">>})
NextGuard ==
    \/ StartAutoCheck(TRUE)
    \/ Busy = {} /\ AutoCheckLoop("a", "startup")
    \/ Busy = {} /\ \E a \in GuardPairArgs : NotifyAdd(a[1], a[2], a[3], a[4], TRUE)
    \/ Busy = {} /\ \E a \in GuardPairArgs : NotifyRemove(a[1], a[2], a[3], a[4], TRUE)
    \/ Busy = {} /\ \E a \in GuardEnableArgs : NotifyEnable(a[1], a[2], a[3], TRUE)
    \/ Busy = {} /\ \E a \in GuardListArgs : NotifyList(a[1], a[2], TRUE)
    \/ Busy = {} /\ \E a \in GuardCheckArgs : NotifyCheck("a", a[1], a[2], a[3], a[4], TRUE)
    \/ \E outcome \in {"ok", "throw"} : FetchReturn("a", outcome)
    \/ LoadReturn("a")
    \/ SendReturn("a", TRUE)
    \/ MkdirReturn("a")
    \/ WriteReturn("a", TRUE)
    \/ Advance
SpecGuard == InitGuard /\ [][NextGuard]_vars

\* The search plugin: searches, list input, timeouts and the queue's timer
\* <<session.cid, typed command, results.length>>
SearchArgs == {<<"s1", TRUE, 25>>, <<"s1", FALSE, 25>>, <<"s1", TRUE, 1>>, <<"s2", TRUE, 5>>}
\* <<session.cid, message>>
InputArgs == {<<"s1", "n">>, <<"s1", "p">>, <<"s1", "q">>, <<"s1", "1">>, <<"s2", "n">>}
InitSearch == InitWith({<<PluginDefault, NoCfgFile, NoStateFile, "v1">>})
NextSearch ==
    \/ \E a \in SearchArgs : SearchCommand(a[1], a[2], a[3])
    \/ \E a \in InputArgs : Middleware(a[1], a[2])
    \/ Expire("s1")
    \/ \E k \in 1..2 : TaskReturn(k)
    \/ TimerFires
SpecSearch == InitSearch /\ [][NextSearch]_vars
\* the same with timers that fire and tasks that finish: a task that has started
\* returns or rejects, the wrapper of enqueue catching what it throws, and the timeout
\* of the finally block fires; the messages of the users are under no obligation
FairSearch ==
    /\ WF_vars(TimerFires)
    /\ \A k \in 1..2 : WF_vars(TaskReturn(k))
SpecSearchFair == SpecSearch /\ FairSearch

\* Handlers interleave at their awaits, and a write of the state file can fail
InitSave == InitWith({<<PluginOpen, CfgTwoSubs, NoStateFile, "v1">>,
                      <<PluginOpen, CfgOneSub, StateOf(Put(EmptyMap, K1, <<"v1">>)), "v1">>})
NextSave ==
    \/ StartAutoCheck(TRUE)
    \/ \E s \in Slots : FreeSlot(s) /\ AutoCheckLoop(s, "startup")
    \/ \E s \in Slots, b \in BOOLEAN : FreeSlot(s) /\ NotifyCheck(s, "c1", "", b, 3, TRUE)
    \/ \E s \in Slots, outcome \in {"ok", "throw"} : FetchReturn(s, outcome)
    \/ \E s \in Slots : LoadReturn(s)
    \/ \E s \in Slots : SendReturn(s, TRUE)
    \/ \E s \in Slots : MkdirReturn(s)
    \/ \E s \in Slots, w \in BOOLEAN : WriteReturn(s, w)
    \/ Publish("mr", "p1", "v2")
    \/ Advance
SpecSave == InitSave /\ [][NextSave]_vars

\* One handler at a time, with writes of the config file and of the state file that
\* succeed or fail
FailPairArgs == {<<"c1", "cf", "2", 3>>}
InitFail == InitWith({<<PluginOpen, CfgOneSub, NoStateFile, "v1">>,
                      <<PluginOpen, NoCfgFile, NoStateFile, "v1">>})
NextFail ==
    \/ \E w \in BOOLEAN : StartAutoCheck(w)
    \/ Busy = {} /\ \E a \in FailPairArgs, w \in BOOLEAN : NotifyAdd(a[1], a[2], a[3], a[4], w)
    \/ Busy = {} /\ \E a \in FailPairArgs, w \in BOOLEAN : NotifyRemove(a[1], a[2], a[3], a[4], w)
    \/ Busy = {} /\ \E w \in BOOLEAN : NotifyList("c1", 3, w)
    \/ Busy = {} /\ \E o \in {"on", "off"}, w \in BOOLEAN : NotifyEnable("c1", o, 3, w)
    \/ Busy = {} /\ AutoCheckLoop("a", "startup")
    \/ Busy = {} /\ \E b \in BOOLEAN : NotifyCheck("a", "c1", "1", b, 3, TRUE)
    \/ FetchReturn("a", "ok")
    \/ LoadReturn("a")
    \/ SendReturn("a", TRUE)
    \/ MkdirReturn("a")
    \/ \E w \in BOOLEAN : WriteReturn("a", w)
    \/ Advance
SpecFail == InitFail /\ [][NextFail]_vars

\* One subscription that is removed, added again and switched off and on while it is
\* checked by passes and by hand and while new versions are published
InitKeep == InitWith({<<PluginOpen, CfgOneSub, NoStateFile, "v1">>,
                      <<PluginOpen, CfgOneSub, StateOf(Put(EmptyMap, K2, <<"v1">>)), "v1">>})
NextKeep ==
    \/ StartAutoCheck(TRUE)
    \/ Busy = {} /\ NotifyAdd("c1", "mr", "p1", 3, TRUE)
    \/ NotifyRemove("c1", "mr", "p1", 3, TRUE)
    \/ \E o \in {"on", "off"} : NotifyEnable("c1", o, 3, TRUE)
    \/ Busy = {} /\ \E which \in {"startup", "tick"} : AutoCheckLoop("a", which)
    \/ Busy = {} /\ \E b \in BOOLEAN : NotifyCheck("a", "c1", "", b, 3, TRUE)
    \/ \E outcome \in {"ok", "throw"} : FetchReturn("a", outcome)
    \/ LoadReturn("a")
    \/ \E delivered \in BOOLEAN : SendReturn("a", delivered)
    \/ MkdirReturn("a")
    \/ WriteReturn("a", TRUE)
    \/ Publish("mr", "p1", "v2")
    \/ Advance
SpecKeep == InitKeep /\ [][NextKeep]_vars

\* The scheduler over a longer stretch of time, with timers that fire and calls that
\* return: the passes, a manual check between them, and notify.enable at any moment.
\* The timers of the host fire when they are due, and every awaited call (fetch,
\* readFile, render and send, mkdir, writeFile) returns or throws; the commands and the
\* publications are under no obligation. A timer callback runs whatever else is in
\* flight; as the handlers here run one at a time, a callback that is due again and
\* again between manual checks does run (strong fairness).
LiveClock == MaxClock + 3
InitLive == InitWith({<<PluginOpen, CfgTwoSubs, NoStateFile, "v1">>})
NextLive ==
    \/ StartAutoCheck(TRUE)
    \/ \E which \in {"startup", "tick"} : AutoCheckLoop("a", which)
    \/ Busy = {} /\ NotifyCheck("a", "c1", "1", FALSE, 3, TRUE)
    \/ \E outcome \in {"ok", "throw"} : FetchReturn("a", outcome)
    \/ LoadReturn("a")
    \/ \E delivered \in BOOLEAN : SendReturn("a", delivered)
    \/ MkdirReturn("a")
    \/ WriteReturn("a", TRUE)
    \/ \E o \in {"on", "off"} : NotifyEnable("c1", o, 3, TRUE)
    \/ Publish("mr", "p1", "v2")
    \/ AdvanceWithin(LiveClock)
FairLive ==
    /\ WF_vars(StartAutoCheck(TRUE))
    /\ SF_vars(\E which \in {"startup", "tick"} : AutoCheckLoop("a", which))
    /\ WF_vars(AdvanceWithin(LiveClock))
    /\ WF_vars(\E outcome \in {"ok", "throw"} : FetchReturn("a", outcome))
    /\ WF_vars(LoadReturn("a"))
    /\ WF_vars(\E delivered \in BOOLEAN : SendReturn("a", delivered))
    /\ WF_vars(MkdirReturn("a"))
    /\ WF_vars(WriteReturn("a", TRUE))
SpecLive == InitLive /\ [][NextLive]_vars /\ FairLive

\* Channel ids and project ids as the config file and the commands can give them,
\* the separator of the state key among their characters: the passes and the manual
\* checks over such configs, one handler at a time
KeyChannels == {"c1", "c1|mr|x"}
CfgBarInIds == CfgFile(ON, <<Group("c1", ON, <<Sub("mr", "x|mr|p1", <<MinInterval>>)>>),
                             Group("c1|mr|x", ON, <<Sub("mr", "p1", <<MinInterval>>)>>)>>)
CfgBarInChannel == CfgFile(ON, <<Group("c1|mr|x", ON, <<Sub("mr", "p1", <<MinInterval>>)>>),
                                 Group("c1", ON, <<Sub("cf", "2", <<MinInterval>>)>>)>>)
InitKey == InitWith({<<PluginOpen, cf, sf, l>> :
                        cf \in {CfgBarInIds, CfgBarInChannel, CfgTwoSubs},
                        sf \in {NoStateFile,
                                StateOf(Put(EmptyMap, getStateKey("c1|mr|x", "mr", "p1"), <<"v1">>))},
                        l \in {"v1", "v2"}})
NextKey ==
    \/ StartAutoCheck(TRUE)
    \/ Busy = {} /\ \E which \in {"startup", "tick"} : AutoCheckLoop("a", which)
    \/ Busy = {} /\ \E c \in KeyChannels, b \in BOOLEAN : NotifyCheck("a", c, "", b, 3, TRUE)
    \/ Busy = {} /\ NotifyAdd("c1", "mr", "x|mr|p1", 3, TRUE)
    \/ Busy = {} /\ NotifyRemove("c1", "mr", "x|mr|p1", 3, TRUE)
    \/ \E outcome \in {"ok", "throw"} : FetchReturn("a", outcome)
    \/ LoadReturn("a")
    \/ SendReturn("a", TRUE)
    \/ MkdirReturn("a")
    \/ WriteReturn("a", TRUE)
    \/ Advance
SpecKey == InitKey /\ [][NextKey]_vars

\* sendToChannel over the connections the host can have and the channel ids the groups
\* can carry: with the prefix of a connected platform, of another platform, without a
\* prefix, and with the colon first
SendChannels == {"onebot:g1", "discord:g1", "kook:g1", "g1", ":g1"}
InitSend == InitWith({<<PluginDefault, NoCfgFile, NoStateFile, "v1">>})
NextSend ==
    \/ \E p \in BotPlatforms : Connect(p)
    \/ Disconnect
    \/ \E c \in SendChannels, works \in [1..Len(bots) -> BOOLEAN] : SendToChannel(c, works)
SpecSend == InitSend /\ [][NextSend]_vars

\* The start-up load with its await, and the commands that arrive once the ready
\* event has fired: before, while and after the file is read
LoadPairArgs == {<<"c1", "mr", "p1", 3>>, <<"c1", "cf", "2", 3>>, <<"c2", "cf", "2", 3>>}
InitLoad == InitWith({<<PluginOpen, CfgOneSub, NoStateFile, "v1">>,
                      <<PluginOpen, CfgDisabled, NoStateFile, "v1">>,
                      <<PluginOpen, NoCfgFile, NoStateFile, "v1">>})
NextLoad ==
    \/ StartAutoCheckBegins
    \/ \E fresh \in BOOLEAN : StartAutoCheckLoaded(fresh, TRUE)
    \/ configLoaded /\ \E a \in LoadPairArgs : NotifyAdd(a[1], a[2], a[3], a[4], TRUE)
    \/ configLoaded /\ \E a \in LoadPairArgs : NotifyRemove(a[1], a[2], a[3], a[4], TRUE)
    \/ configLoaded /\ \E c \in Channels : NotifyList(c, 3, TRUE)
    \/ configLoaded /\ \E c \in Channels, o \in {"on", "off"} : NotifyEnable(c, o, 3, TRUE)
SpecLoad == InitLoad /\ [][NextLoad]_vars

\* ============================================================== properties
\* ------------------------------------------------- observations of a step
Forced(tk) == tk.kind = "manual" /\ tk.force
\* the record the fetch of slot s brought or brings back in this step
RecordOf(s) == IF tasks[s].pc = "load" THEN tasks[s].latest
               ELSE getLatest(upstream, tasks[s].cur.platform, tasks[s].cur.projectId)
\* the state cache that getState of slot s reads in this step
CacheRead(s) == IF tasks[s].pc = "load" THEN loadStateFromFile(stateCache, stFile)
                ELSE stateCache
\* in this step the check of slot s has its record and its state entry and decides
Decides(s) ==
    \/ tasks[s].pc = "load" /\ LoadReturn(s)
    \/ tasks[s].pc = "fetch" /\ stateLoaded /\ RecordOf(s) # NoRec /\ FetchReturn(s, "ok")
\* in this step slot s calls sendUpdate, or saves the new entry and calls it next
SendStarts(s) == tasks[s].pc # "send" /\ tasks'[s].pc = "send"
SendFollows(s) == SendStarts(s) \/ (tasks'[s].pc = "mkdir" /\ tasks'[s].after = "send")
\* in this step slot s is done with a subscription whose record it holds
LeavesWithRecord(s) ==
    /\ tasks[s].latest # NoRec
    /\ tasks'[s].kind = "idle" \/ tasks'[s].latest = NoRec
\* in this step the pass of slot s starts the fetch of a subscription
FetchStarts(s) ==
    /\ tasks'[s].kind = "pass"
    /\ tasks'[s].pc = "fetch"
    /\ tasks[s].kind = "idle" \/ tasks'[s].queue # tasks[s].queue

\* ------------------------------------------------------------------------ C1
\* C1: in a scheduled pass and in a non-forced manual check, when the subscription
\* has no state entry and the fetch returns a record, the check calls sendUpdate
\* neither now nor after the save, and the entry then exists with lastVersion equal
\* to the fetched label (the empty string standing for a label that is missing).
FirstSeedIsSilent ==
    [][\A s \in Slots :
          LET key == KeyOf(tasks[s].cur)
              v == RecordOf(s).version
          IN  (Decides(s) /\ ~Forced(tasks[s]) /\ key \notin DOMAIN CacheRead(s))
              => /\ ~SendFollows(s)
                 /\ sentCur' = sentCur
                 /\ key \in DOMAIN stateCache'
                 /\ stateCache'[key] = (IF v = UNDEF THEN "" ELSE v)]_vars
\* a pass has seeded the entry of its subscription and is saving the state for the
\* first time
FirstSeedHappened ==
    \E s \in Slots :
        /\ tasks[s].kind = "pass"
        /\ tasks[s].pc = "mkdir"
        /\ tasks[s].after = "next"
        /\ tasks[s].sendOk = ""
        /\ ~stFile.ok
        /\ KeyOf(tasks[s].cur) \in DOMAIN stateCache
        /\ stateCache[KeyOf(tasks[s].cur)] = tasks[s].latest.version
        /\ tasks[s].latest.version = "v2"

\* ------------------------------------------------------------------------ C2
\* C2 as stated: of two consecutive non-forced checks of a subscription that fetch A
\* then B, the second notifies if and only if A.version differs from B.version.
SecondCheckNotifiesIffLabelsDiffer ==
    [][\A s \in Slots :
          LET key == KeyOf(tasks[s].cur)
          IN  (Decides(s) /\ ~Forced(tasks[s]) /\ key \in DOMAIN prevRec)
              => (SendStarts(s) <=> prevRec[key] # RecordOf(s).version)]_vars
\* C2, amended: the second check notifies if and only if A.version is a non-empty
\* label and differs from B.version; after an empty or missing A.version it only
\* records B.version.
SecondCheckNotifiesIffNonEmptyLabelChanged ==
    [][\A s \in Slots :
          LET key == KeyOf(tasks[s].cur)
              a == prevRec[key]
              b == RecordOf(s).version
          IN  (Decides(s) /\ ~Forced(tasks[s]) /\ key \in DOMAIN prevRec)
              => /\ SendStarts(s) <=> (a # "" /\ a # UNDEF /\ a # b)
                 /\ (a = "" \/ a = UNDEF) =>
                       /\ key \in DOMAIN stateCache'
                       /\ stateCache'[key] \in {b, IF b = UNDEF THEN "" ELSE b}]_vars
\* the second of two checks is notifying: the label went from v1 to v2
SecondCheckNotifies ==
    \E s \in Slots :
        /\ ~Forced(tasks[s])
        /\ tasks[s].pc = "send"
        /\ KeyOf(tasks[s].cur) \in DOMAIN prevRec
        /\ prevRec[KeyOf(tasks[s].cur)] = "v1"
        /\ tasks[s].latest.version = "v2"

\* ------------------------------------------------------------------------ C3
\* C3: for each subscription and each release the platform publishes, at most one
\* notification is dispatched by the passes and the non-forced manual checks,
\* however they interleave.
AtMostOneNotificationPerChange ==
    \A k \in DOMAIN sentCur : sentCur[k] <= 1

\* ------------------------------------------------------------------------ C4
\* C4: a pass starts the fetch of a subscription whose timestamp is t0 and whose
\* interval is I only at a time t >= t0 + I, also when passes overlap; a manual check
\* with the force flag starts its fetch whatever the timestamp is, and the gate lets
\* every subscription through at every time when force is true.
NoAutomaticCheckBeforeInterval ==
    [][\A s \in Slots :
          LET sub == tasks'[s].cur
              key == KeyOf(sub)
          IN  /\ (FetchStarts(s) /\ key \in DOMAIN lastCheckMap)
                    => now >= lastCheckMap[key] + sub.interval
              /\ (tasks[s].kind = "idle" /\ Forced(tasks'[s]))
                    => /\ tasks'[s].pc = "fetch"
                       /\ lastCheckMap' = lastCheckMap
              /\ LET subs == getConfigSubs(getConfigGroups(config), "", plugin.interval)
                 IN  \A i \in 1..Len(subs) : Eligible(subs[i], lastCheckMap, now, TRUE)]_vars
\* a pass checks a subscription again, one interval after its last check, while a
\* forced manual check of it is in flight
ScheduledRecheck ==
    \E s \in Slots :
        /\ tasks[s].kind = "pass"
        /\ tasks[s].pc = "fetch"
        /\ KeyOf(tasks[s].cur) \in DOMAIN prevRec
        /\ lastCheckMap[KeyOf(tasks[s].cur)] = now
        /\ now >= StartTime + 2 * BaseTick
        /\ \E x \in Slots : Forced(tasks[x])

\* ------------------------------------------------------------------------ C5
\* C5: a manual check with the force flag whose fetch returns a record calls
\* sendUpdate once, whatever the state entry is (absent, empty, the fetched label,
\* another label), never a second time, and leaves lastVersion at the fetched label.
ForcedCheckNotifiesOnce ==
    [][\A s \in Slots :
          LET key == KeyOf(tasks[s].cur)
              v == tasks[s].latest.version
          IN  Forced(tasks[s]) =>
                 /\ Decides(s) => SendFollows(s)
                 /\ tasks[s].pc = "send" => tasks[s].sendOk = ""
                 /\ LeavesWithRecord(s) =>
                       /\ tasks[s].sendOk # ""
                       /\ key \in DOMAIN stateCache'
                       /\ stateCache'[key] = (IF v = UNDEF THEN "" ELSE v)]_vars
\* a forced check is notifying although the entry has the fetched label
ForcedCheckOfUnchangedVersion ==
    \E s \in Slots :
        /\ Forced(tasks[s])
        /\ tasks[s].pc = "send"
        /\ KeyOf(tasks[s].cur) \in DOMAIN stateCache
        /\ stateCache[KeyOf(tasks[s].cur)] = tasks[s].latest.version
        /\ tasks[s].latest.version = "v1"

\* ------------------------------------------------------------------------ C6
\* C6: when a pass or a non-forced manual check detects a change and sendUpdate
\* fails, lastVersion is not advanced to the new label.
FailedNotificationKeepsLastVersion ==
    \A s \in Slots :
        (~Forced(tasks[s]) /\ tasks[s].sendOk = "failed")
        => LET key == KeyOf(tasks[s].cur)
           IN  key \notin DOMAIN stateCache \/ stateCache[key] # tasks[s].latest.version

\* ------------------------------------------- observations of the config store
\* the config a command works on once its loadConfigFromFile has returned
Loaded == loadConfigFromFile(config, configLoaded, cfgFile, TRUE)
\* the subscription list of a channel in a list of groups
SubsOf(groups, channelId) ==
    IF GroupIndex(groups, channelId) = 0 THEN <<>>
    ELSE groups[GroupIndex(groups, channelId)].subs
\* the entry reads as the pair (platformKey, pid)
SamePair(sub, platformKey, pid) ==
    normalizePlatform(sub.platform) = platformKey /\ Trim(sub.projectId) = pid
Present(list, platformKey, pid) ==
    \E k \in 1..Len(list) : SamePair(list[k], platformKey, pid)
\* no list of the groups has two entries that read as the same pair
UniquePairs(groups) ==
    \A i \in 1..Len(groups) :
        \A a, b \in 1..Len(groups[i].subs) :
            a # b => ~SamePair(groups[i].subs[a],
                               normalizePlatform(groups[i].subs[b].platform),
                               Trim(groups[i].subs[b].projectId))
\* the arguments and callers a command accepts
AcceptedPairs == {a \in PairArgs : /\ a[1] # NoChannel
                                    /\ normalizePlatform(a[2]) # ""
                                    /\ Trim(a[3]) # ""
                                    /\ requireManage(plugin.adminAuthority, a[4])}
AcceptedLists == {a \in ListArgs : a[1] # NoChannel /\ requireManage(plugin.adminAuthority, a[2])}

\* ------------------------------------------------------------------------ C7
\* C7: when no list of the host's config, of the config in memory and of the config
\* file has the same (platform, projectId) twice, no command, start or restart makes
\* one that has; notify.add of a pair the channel has leaves the channel's list as
\* it is, writes nothing to the config file and answers 'already exists'.
PairsStayUnique ==
    [][/\ (/\ UniquePairs(plugin.groups)
           /\ UniquePairs(getConfigGroups(config))
           /\ UniquePairs(cfgFile.groups))
          => /\ UniquePairs(getConfigGroups(config'))
             /\ UniquePairs(cfgFile'.groups)
       /\ \A a \in AcceptedPairs :
             LET c == a[1]
                 p == a[2]
                 x == a[3]
                 r == a[4]
             IN
             (/\ NotifyAdd(c, p, x, r, TRUE)
              /\ Present(SubsOf(getConfigGroups(Loaded.config), c),
                         normalizePlatform(p), Trim(x)))
             => /\ SubsOf(getConfigGroups(config'), c)
                      = SubsOf(getConfigGroups(Loaded.config), c)
                /\ cfgFile' = Loaded.file
                /\ savedGroups' = IF Loaded.wrote
                                  THEN [has |-> TRUE, groups |-> getConfigGroups(Loaded.config)]
                                  ELSE savedGroups
                /\ reply'.tag = "Exists"]_vars
\* notify.add has refused a pair that the channel has, in a config without doubles
AddRefusedAsDuplicate ==
    /\ reply.tag = "Exists"
    /\ UniquePairs(getConfigGroups(config))
    /\ Len(SubsOf(getConfigGroups(config), "c1")) = 2
    /\ cfgFile = CfgTwoSubs

\* ------------------------------------------------------------------------ C8
\* C8: notify.remove of a pair the channel has drops exactly the entries that read as
\* the pair, keeps the others in their order, saves and answers 'removed';
\* notify.remove of a pair the channel has not (a second remove, a channel without a
\* group) answers 'not found' and leaves the lists and the config file as they are;
\* notify.add on a channel without entries leaves one entry, the pair; notify.list
\* shows one line per entry of the channel, in order, with the entry's pair.
RemoveDropsExactlyThePair ==
    [][/\ \A a \in AcceptedPairs :
             LET c == a[1]
                 p == a[2]
                 x == a[3]
                 r == a[4]
                 pk == normalizePlatform(p)
                 pid == Trim(x)
                 before == SubsOf(getConfigGroups(Loaded.config), c)
                 after == SubsOf(getConfigGroups(config'), c)
                 NotThePair(e) == ~SamePair(e, pk, pid)
             IN  /\ NotifyRemove(c, p, x, r, TRUE) =>
                       IF Present(before, pk, pid)
                       THEN /\ reply'.tag = "Removed"
                            /\ after = SelectSeq(before, NotThePair)
                            /\ \A d \in Channels \ {c} :
                                  SubsOf(getConfigGroups(config'), d)
                                     = SubsOf(getConfigGroups(Loaded.config), d)
                            /\ cfgFile'.ok
                            /\ cfgFile'.groups = getConfigGroups(config')
                       ELSE /\ reply'.tag = "NotFound"
                            /\ getConfigGroups(config') = getConfigGroups(Loaded.config)
                            /\ cfgFile' = Loaded.file
                 /\ (NotifyAdd(c, p, x, r, TRUE) /\ before = <<>>) =>
                       /\ Len(after) = 1
                       /\ after[1].platform = pk
                       /\ after[1].projectId = pid
       /\ \A a \in AcceptedLists :
             LET c == a[1]
                 r == a[2]
                 list == SubsOf(getConfigGroups(Loaded.config), c)
             IN  (NotifyList(c, r, TRUE) /\ list # <<>>) =>
                    /\ Len(reply'.lines) = Len(list)
                    /\ \A k \in 1..Len(list) :
                          /\ reply'.lines[k].projectId = Trim(list[k].projectId)
                          /\ normalizePlatform(list[k].platform) # "" =>
                                reply'.lines[k].platform = normalizePlatform(list[k].platform)]_vars
\* notify.remove mr p1 has dropped the two entries of the hand-written list that read
\* as mr:p1 and kept the other two in their order
RemovedBothMatches ==
    /\ reply.tag = "Removed"
    /\ SubsOf(getConfigGroups(config), "c1")
          = <<Sub("xx", "p1", <<MinInterval>>), Sub("cf", "2", <<0>>)>>
    /\ cfgFile.ok
    /\ cfgFile.groups = getConfigGroups(config)

\* ------------------------------------------------------------------------ C9
\* C9: a process that starts after the config was saved loads the groups that were
\* saved: the same groups in the same order, each with its channelId, its enabled
\* flag and its subscriptions in order.  A process that starts after the state was
\* saved loads the map that was saved: the same keys with the same lastVersion (the
\* check that triggers the load then seeds or repairs the entry of its own key only).
SavedIsLoadedAfterRestart ==
    [][/\ (StartAutoCheck(TRUE) /\ ~configLoaded /\ savedGroups.has)
             => /\ configLoaded'
                /\ getConfigGroups(config') = savedGroups.groups
       /\ \A s \in Slots :
             LET key == KeyOf(tasks[s].cur)
                 m == savedState.map
             IN  (LoadReturn(s) /\ savedState.has)
                 => /\ DOMAIN stateCache' \subseteq DOMAIN m \cup {key}
                    /\ \A k \in DOMAIN m :
                          /\ k \in DOMAIN stateCache'
                          /\ (k # key \/ (m[k] # "" /\ m[k] # UNDEF))
                                => stateCache'[k] = m[k]]_vars
\* the second process has loaded the groups, a group switched off among them, and
\* the two state entries that the first process saved
RestartedWithSavedConfigAndState ==
    /\ restarts = 1
    /\ configLoaded
    /\ savedGroups.has
    /\ getConfigGroups(config) = savedGroups.groups
    /\ \E i \in 1..Len(config.groups) : config.groups[i].enabled = OFF
    /\ stateLoaded
    /\ savedState.has
    /\ stateCache = savedState.map
    /\ DOMAIN stateCache = {K1, K2}
    /\ Busy = {}

\* ----------------------------------------------------------------------- C10
\* C10: a process starts with no timestamp, and has none until its first pass; a
\* pass passes over a subscription only if it has a timestamp, so the first pass
\* fetches every subscription getConfigSubs hands it; a pass that fetches, for a key
\* not checked before in this process, the label the state file holds for the key
\* does not notify.
FirstPassAfterRestart ==
    [][/\ (timers.armed /\ timers.startupPending) => lastCheckMap = EmptyMap
       /\ ~timers.armed => lastCheckMap = EmptyMap
       /\ \A s \in Slots :
             LET begins == /\ tasks[s].kind = "idle"
                           /\ config.enabled = ON
                           /\ \E which \in {"startup", "tick"} : AutoCheckLoop(s, which)
                 moves == /\ tasks[s].kind = "pass"
                          /\ restarts' = restarts
                          /\ tasks'[s].kind = "idle" \/ tasks'[s].queue # tasks[s].queue
                 passList == IF begins
                          THEN getConfigSubs(getConfigGroups(config), "", plugin.interval)
                          ELSE tasks[s].queue
                 skipped == IF tasks'[s].kind = "pass" THEN Len(passList) - Len(tasks'[s].queue) - 1
                            ELSE Len(passList)
             IN  (begins \/ moves) =>
                    \A i \in 1..skipped : KeyOf(passList[i]) \in DOMAIN lastCheckMap
       /\ \A s \in Slots :
             LET key == KeyOf(tasks[s].cur)
             IN  (/\ Decides(s)
                  /\ tasks[s].kind = "pass"
                  /\ key \notin DOMAIN prevRec
                  /\ stFile.ok
                  /\ key \in DOMAIN stFile.map
                  /\ stFile.map[key] # NotObject
                  /\ LastVersionOf(stFile.map[key]) = RecordOf(s).version)
                 => /\ ~SendFollows(s)
                    /\ sentCur' = sentCur]_vars
\* in the second process the first pass (no tick has fired) has checked mr:p1, whose
\* persisted label is the one it fetched, and is fetching cf:2
FirstPassChecksAll ==
    /\ restarts = 1
    /\ timers.armed
    /\ ~timers.startupPending
    /\ timers.tick = timers.startup - StartupDelay + BaseTick
    /\ tasks["a"].kind = "pass"
    /\ tasks["a"].pc = "fetch"
    /\ KeyOf(tasks["a"].cur) = K2
    /\ DOMAIN lastCheckMap = {K1, K2}
    /\ K1 \in DOMAIN prevRec
    /\ stFile.ok
    /\ K1 \in DOMAIN stFile.map
    /\ stFile.map[K1] = <<prevRec[K1]>>
    /\ stateCache[K1] = prevRec[K1]

\* ----------------------------------------------------------------------- C11
\* the enabled flag of the channel's group in the config (UNDEF without a group)
GroupFlag(cfg, channelId) ==
    IF GroupIndex(getConfigGroups(cfg), channelId) = 0 THEN UNDEF
    ELSE getConfigGroups(cfg)[GroupIndex(getConfigGroups(cfg), channelId)].enabled
\* C11: a pass takes a step only while the global enabled flag is true; a pass starts
\* the fetch of a subscription only while the flag of its channel's group is not
\* false; notify.enable leaves the channel's list as it is; after notify.enable on
\* every valid entry of the channel is handed to the passes again.
DisabledMeansNoScheduledCheck ==
    [][/\ \A s \in Slots :
             (tasks'[s].kind = "pass" /\ tasks'[s] # tasks[s]) => config.enabled = ON
       /\ \A s \in Slots :
             FetchStarts(s) => GroupFlag(config, tasks'[s].cur.channelId) # OFF
       /\ \A c \in Channels, o \in {"on", "off"} :
             NotifyEnable(c, o, 3, TRUE) =>
                /\ SubsOf(getConfigGroups(config'), c)
                      = SubsOf(getConfigGroups(Loaded.config), c)
                /\ o = "on" =>
                      getConfigSubs(getConfigGroups(config'), c, plugin.interval)
                         = SubsOfGroup(c, SubsOf(getConfigGroups(Loaded.config), c),
                                       plugin.interval)]_vars

\* ----------------------------------------------------------------------- C12
\* the intervals of the subscriptions a pass or a manual check holds
HandedIntervals(s) ==
    {tasks[s].queue[k].interval : k \in 1..Len(tasks[s].queue)}
       \cup (IF tasks[s].cur = NoSub THEN {} ELSE {tasks[s].cur.interval})
\* C12: every subscription a pass or a manual check holds has an interval of at least
\* 60000 ms, whatever is stored; the entry an accepted notify.add appends is stored
\* with an interval of at least 60000 ms.
IntervalsAreAtLeastOneMinute ==
    [][/\ \A s \in Slots : \A i \in HandedIntervals(s)' : i >= 60000
       /\ \A c \in Channels :
             (NotifyAdd(c, "cf", "2", 3, TRUE) /\ reply'.tag = "Added") =>
                LET list == SubsOf(getConfigGroups(config'), c)
                IN  /\ list # <<>>
                    /\ list[Len(list)].interval # <<>>
                    /\ list[Len(list)].interval[1] >= 60000
                    /\ SubsOf(cfgFile'.groups, c) = list]_vars
\* a manual check holds the subscription that notify.add stored under a global
\* interval below the floor
AddedBelowFloorIsChecked ==
    /\ plugin.interval # <<>> /\ plugin.interval[1] < 60000
    /\ tasks["a"].kind = "manual"
    /\ tasks["a"].cur.projectId = "2"
    /\ tasks["a"].cur.interval = 60000
    /\ \E k \in 1..Len(SubsOf(getConfigGroups(config), "c1")) :
          SubsOf(getConfigGroups(config), "c1")[k].interval = <<60000>>

\* ----------------------------------------------------------------------- C13
\* the list the scheduler enumerates: getConfigSubs() over the groups in memory
Scheduled == getConfigSubs(getConfigGroups(config), "", plugin.interval)
\* Number(config.interval) || 30 * 60 * 1000, floored at one minute
GlobalDefault ==
    Max(60000, IF plugin.interval # <<>> /\ plugin.interval[1] # 0
               THEN plugin.interval[1] ELSE 30 * 60 * 1000)
\* C13: every stored entry with a valid pair in a channel that is not disabled whose
\* interval is unset or not positive is in the list the scheduler enumerates, with
\* the global default as its interval.
UnsetOrNonPositiveIntervalIsScheduled ==
    \A c \in Channels :
       GroupFlag(config, c) # OFF =>
          \A k \in 1..Len(SubsOf(getConfigGroups(config), c)) :
             LET e == SubsOf(getConfigGroups(config), c)[k]
             IN  (/\ normalizePlatform(e.platform) # ""
                  /\ Trim(e.projectId) # ""
                  /\ e.interval = <<>> \/ e.interval[1] <= 0) =>
                    \E j \in 1..Len(Scheduled) :
                       /\ Scheduled[j].channelId = c
                       /\ SamePair(Scheduled[j], normalizePlatform(e.platform),
                                   Trim(e.projectId))
                       /\ Scheduled[j].interval = GlobalDefault

\* ----------------------------------------------------------------------- C14
\* Number(config.adminAuthority ?? 3)
Threshold == IF plugin.adminAuthority = <<>> THEN 3 ELSE plugin.adminAuthority[1]
\* the threshold is 2 or 3 and the caller's role level is below it
Below(roleLevel) == Threshold \in {2, 3} /\ roleLevel < Threshold
\* the step leaves the config as loadConfigFromFile yields it, the config file, the
\* version state in memory and in its file and the last-check timestamps as they are,
\* starts no check and sends nothing
Untouched ==
    /\ config' = (IF configLoaded THEN config ELSE Loaded.config)
    /\ cfgFile' = Loaded.file
    /\ UNCHANGED <<stateCache, stFile, saving, lastCheckMap, tasks, sentCur>>
\* C14: under threshold 2 or 3 a caller below the threshold gets the rejection from
\* notify.add, notify.remove, notify.enable, notify.list and notify.check (when the
\* arguments get as far as the authorization) and in every case groups, lists, flags
\* and version state stay as they are and nothing is sent; under a threshold of 1 or
\* lower no caller of any role level is rejected for authorization.
UnauthorizedCallerChangesNothing ==
    [][/\ Threshold <= 1 => reply'.tag # "Denied"
       /\ \A a \in GuardPairArgs :
             (/\ Below(a[4])
              /\ NotifyAdd(a[1], a[2], a[3], a[4], TRUE)
                    \/ NotifyRemove(a[1], a[2], a[3], a[4], TRUE)) =>
                /\ Untouched
                /\ (a[1] # NoChannel /\ a[2] \in {"mr", "cf"} /\ a[3] # "") =>
                      reply'.tag = "Denied"
       /\ \A a \in GuardEnableArgs :
             (Below(a[3]) /\ NotifyEnable(a[1], a[2], a[3], TRUE)) =>
                Untouched /\ (a[1] # NoChannel => reply'.tag = "Denied")
       /\ \A a \in GuardListArgs :
             (Below(a[2]) /\ NotifyList(a[1], a[2], TRUE)) =>
                Untouched /\ (a[1] # NoChannel => reply'.tag = "Denied")
       /\ \A a \in GuardCheckArgs :
             (Below(a[4]) /\ NotifyCheck("a", a[1], a[2], a[3], a[4], TRUE)) =>
                Untouched /\ (a[1] # NoChannel => reply'.tag = "Denied")]_vars
\* under the default threshold 3 a command was rejected for authorization after a pass
\* had recorded its checks, and the channel's subscriptions are there
DeniedUnderDefaultThreshold ==
    /\ reply.tag = "Denied"
    /\ plugin.adminAuthority = <<>>
    /\ DOMAIN lastCheckMap # {}
    /\ Len(SubsOf(getConfigGroups(config), "c1")) = 2

\* ----------------------------------------------------------------------- C15
\* C15: notify.add and notify.remove given no channel, a platform other than mr and
\* cf or a missing or blank projectId, notify.enable given no channel or a word that
\* is neither on nor off, notify.list given no channel, and notify.check given no
\* channel or an index or projectId that matches no subscription (none at all in a
\* channel without subscriptions) answer with a rejection and leave groups, lists, flags, version state, running checks and
\* last-check timestamps as they are; a channel without a group has none afterwards.
InputErrorChangesNothing ==
    [][/\ \A a \in GuardPairArgs :
             (/\ a[1] = NoChannel \/ a[2] \notin {"mr", "cf"} \/ a[3] \in {"", " "}
              /\ NotifyAdd(a[1], a[2], a[3], a[4], TRUE)
                    \/ NotifyRemove(a[1], a[2], a[3], a[4], TRUE)) =>
                /\ Untouched
                /\ reply'.tag \in {"ArgsMissing", "BadPlatform", "NoChannel", "EmptyId"}
                /\ GroupIndex(getConfigGroups(Loaded.config), a[1]) = 0 =>
                      GroupIndex(getConfigGroups(config'), a[1]) = 0
       /\ \A a \in GuardEnableArgs :
             (/\ a[1] = NoChannel \/ a[2] \notin {"on", "off"}
              /\ NotifyEnable(a[1], a[2], a[3], TRUE)) =>
                /\ Untouched
                /\ reply'.tag \in {"NoChannel", "BadOnOff"}
                /\ GroupIndex(getConfigGroups(Loaded.config), a[1]) = 0 =>
                      GroupIndex(getConfigGroups(config'), a[1]) = 0
       /\ \A a \in GuardListArgs :
             (a[1] = NoChannel /\ NotifyList(a[1], a[2], TRUE)) =>
                Untouched /\ reply'.tag = "NoChannel"
       /\ \A a \in GuardCheckArgs :
             (/\ a[1] = NoChannel \/ a[2] \in {"3", "zz"}
              /\ NotifyCheck("a", a[1], a[2], a[3], a[4], TRUE)) =>
                /\ Untouched
                /\ reply'.tag \in {"NoChannel", "NoSubs", "BadIndex", "BadId"}]_vars
\* notify.enable was refused for its word in a channel without a group, after a pass
\* had recorded its checks
EnableRefusedForItsWord ==
    /\ reply.tag = "BadOnOff"
    /\ GroupIndex(getConfigGroups(config), "c2") = 0
    /\ DOMAIN lastCheckMap # {}

\* ----------------------------------------------------------------------- C16
\* the lines notify.list prints for the channel, from the config as loaded
Listed(channelId) ==
    LET stored == SubsOf(getConfigGroups(Loaded.config), channelId)
    IN  [k \in 1..Len(stored) |-> ListLine(stored[k], plugin.interval)]
\* C16: notify.check with index i, for every number i that notify.list prints in the
\* channel, starts the check of exactly the subscription printed on line i: it is not
\* refused, and its one target has the platform and projectId of that line.
ListNumberSelectsThatSubscription ==
    [][\A arg \in {"1", "2", "3"}, b \in BOOLEAN :
          (NotifyCheck("a", "c1", arg, b, 3, TRUE) /\ ToNumber(arg)[1] <= Len(Listed("c1"))) =>
             /\ tasks'["a"].kind = "manual"
             /\ tasks'["a"].queue = <<>>
             /\ tasks'["a"].cur.platform = Listed("c1")[ToNumber(arg)[1]].platform
             /\ tasks'["a"].cur.projectId = Listed("c1")[ToNumber(arg)[1]].projectId]_vars

\* ----------------------------------------------------------------------- C17
\* the subscriptions of the channel a manual check can target, from the config as
\* loaded
Targets(channelId) ==
    getConfigSubsOrdered(getConfigGroups(Loaded.config), channelId, plugin.interval)
\* C17: notify.check with an argument that is the projectId of a subscription of the
\* channel, numeric or not, starts the check of that subscription alone; with a
\* positive number that is no projectId and is within the list it starts the check of
\* the subscription at that index alone.
CheckByProjectIdSelectsThatSubscription ==
    [][\A arg \in CheckArgs \ {""}, b \in BOOLEAN :
          NotifyCheck("a", "c1", arg, b, 3, TRUE) =>
             IF \E k \in 1..Len(Targets("c1")) : Targets("c1")[k].projectId = arg
             THEN /\ tasks'["a"].kind = "manual"
                  /\ tasks'["a"].queue = <<>>
                  /\ tasks'["a"].cur.projectId = arg
             ELSE (ToNumber(arg) # <<>> /\ ToNumber(arg)[1] <= Len(Targets("c1"))) =>
                     /\ tasks'["a"].kind = "manual"
                     /\ tasks'["a"].queue = <<>>
                     /\ tasks'["a"].cur = Targets("c1")[ToNumber(arg)[1]]]_vars

\* ----------------------------------------------------------------------- C18
\* the gate of a pass lets the subscription through now
Due(sub) ==
    now - (IF KeyOf(sub) \in DOMAIN lastCheckMap THEN lastCheckMap[KeyOf(sub)] ELSE 0)
       >= sub.interval
\* in this step the pass of slot s goes from its subscription to the first one left in
\* its list that is due, starting its fetch, or ends without a reply when none is
MovesOn(s) ==
    LET q == tasks[s].queue
    IN  \/ /\ tasks'[s] = Idle
           /\ reply' = reply
           /\ \A k \in 1..Len(q) : ~Due(q[k])
        \/ \E k \in 1..Len(q) :
              /\ tasks'[s].kind = "pass"
              /\ tasks'[s].pc = "fetch"
              /\ tasks'[s].cur = q[k]
              /\ tasks'[s].queue = SubSeq(q, k + 1, Len(q))
              /\ Due(q[k])
              /\ \A j \in 1..(k - 1) : ~Due(q[j])
\* in this step the pass of slot s leaves a subscription whose notification failed
LeavesFailedSend(s) ==
    /\ tasks[s].kind = "pass"
    /\ tasks[s].sendOk = "failed"
    /\ tasks'[s].sendOk # "failed"
\* in this step the fetch of the pass of slot s fails: it throws or finds no release
FetchFails(s) ==
    /\ tasks[s].kind = "pass"
    /\ \/ FetchReturn(s, "throw")
       \/ /\ FetchReturn(s, "ok")
          /\ getLatest(upstream, tasks[s].cur.platform, tasks[s].cur.projectId) = NoRec
\* C18: when the fetch of a subscription fails in a pass, or its notification fails,
\* the pass counts the subscription as failed and goes on with the next subscription
\* of its list that is due, in the order of the list, or ends without an error.
FailureIsCountedAndPassGoesOn ==
    [][\A s \in Slots :
          (FetchFails(s) \/ LeavesFailedSend(s)) =>
             /\ MovesOn(s)
             /\ tasks'[s].kind = "pass" => tasks'[s].failed = tasks[s].failed + 1]_vars

\* ----------------------------------------------------------------------- C19
\* C19: a page turn of a session whose list is active shows the next page on n when
\* the page shown is not the last and the previous page on p when it is not the first,
\* whichever command started the list; the page index of every active list is a
\* number within 0 .. pageCount - 1.
PageTurnShowsTheNeighbourPage ==
    [][/\ \A k \in DOMAIN executing :
             LET e == executing[k]
                 cur == shown[e.cid].page
                 total == PageCount(searchStates[e.cid].results)
             IN  (/\ TaskReturn(k)
                  /\ e.name = "page-turn"
                  /\ e.ref
                  /\ searchStates[e.cid].active) =>
                    /\ (e.input = "n" /\ cur < total - 1) =>
                          shown'[e.cid] = [kind |-> "list", page |-> cur + 1]
                    /\ (e.input = "p" /\ cur > 0) =>
                          shown'[e.cid] = [kind |-> "list", page |-> cur - 1]
       /\ \A c \in Cids :
             searchStates'[c].active =>
                /\ searchStates'[c].pageIndex # <<>>
                /\ searchStates'[c].pageIndex[1] \in 0..(PageCount(searchStates'[c].results) - 1)]_vars

\* ----------------------------------------------------------------------- C20
\* C20: at most one task taken from the queue has been started and has not returned,
\* and one is in flight exactly while isProcessing is set.
AtMostOneTaskExecuting ==
    /\ Len(executing) <= 1
    /\ isProcessing <=> executing # <<>>
\* a task is executing that an enqueue started while the timeout armed by the task
\* before it is still pending, and another task waits
TaskStartedBeforeTheTimerFired ==
    /\ Len(executing) = 1
    /\ rearm > 0
    /\ queue # <<>>

\* ---------------------------------------------------------------- order of the queue

\* the ranks of the tasks that wait, in the order of the queue
Waiting == [k \in DOMAIN queue |-> queue[k].id]
\* the tasks that a step starts
StartedNow == {executing'[k].id : k \in DOMAIN executing'} \ {executing[k].id : k \in DOMAIN executing}
\* the tasks pushed so far that no longer wait are those of rank 1..n, the waiting ones
\* follow in the order of their push
FirstInFirstOut ==
    /\ \A k \in DOMAIN queue : queue[k].id = arrived - Len(queue) + k
    /\ \A k \in DOMAIN executing : executing[k].id <= arrived - Len(queue)

\* C21: the tasks of the queue start in the order of their enqueue: a step that starts a
\* task starts one task, the oldest of those pushed and not yet started, and only when
\* no task is running; this also holds for a task pushed while another runs or while
\* the 500 ms timeout of processQueue is pending.
TasksStartInEnqueueOrder ==
    [][/\ FirstInFirstOut'
       /\ StartedNow # {} =>
            /\ executing = <<>>
            /\ StartedNow = {arrived' - Len(queue')}
            /\ \A k \in DOMAIN queue : queue[k].id >= arrived' - Len(queue')]_vars

\* the second task was pushed while the first was running, the first has returned and
\* its timeout is pending, and the second has started while a third one waits
SecondStartsBeforeThird ==
    /\ Len(executing) = 1 /\ executing[1].id = 2
    /\ rearm > 0
    /\ Waiting = <<3>>

\* ---------------------------------------------------------------- empty lastVersion

\* getState of slot s returns, in this step, an entry whose lastVersion is empty or missing
ReadsEmptyEntry(s) ==
    /\ KeyOf(tasks[s].cur) \in DOMAIN CacheRead(s)
    /\ Falsy(CacheRead(s)[KeyOf(tasks[s].cur)])

\* C22: in a scheduled pass and in a non-forced manual check, when the state entry of
\* the subscription exists and its lastVersion is empty or missing, the check calls
\* sendUpdate neither now nor after the save, counts no notification, and the entry
\* then holds the fetched label (the empty string standing for a label that is missing).
EmptyLastVersionIsFilledSilently ==
    [][\A s \in Slots :
          LET key == KeyOf(tasks[s].cur)
              v == RecordOf(s).version
          IN  (Decides(s) /\ ~Forced(tasks[s]) /\ ReadsEmptyEntry(s))
              => /\ ~SendFollows(s)
                 /\ sentCur' = sentCur
                 /\ key \in DOMAIN stateCache'
                 /\ OrEmpty(stateCache'[key]) = OrEmpty(v)
                 /\ v \in {"v1", "v2"} => tasks'[s].pc \in {"mkdir", "fetch", "idle"}]_vars
\* the former check of the subscription fetched no label, this one fetched v1, wrote
\* it into the entry and is saving the state without having notified
EmptyLastVersionWasFilled ==
    \E s \in Slots :
        /\ ~Forced(tasks[s])
        /\ tasks[s].pc = "mkdir"
        /\ tasks[s].after = "next"
        /\ tasks[s].sendOk = ""
        /\ KeyOf(tasks[s].cur) \in DOMAIN prevRec
        /\ Falsy(prevRec[KeyOf(tasks[s].cur)])
        /\ tasks[s].latest.version = "v1"
        /\ stateCache[KeyOf(tasks[s].cur)] = "v1"

\* ---------------------------------------------------------------- groups and the load

\* the channel has a group in the in-memory config
HasGroup(cfg, channelId) == GroupIndex(getConfigGroups(cfg), channelId) # 0

\* C23: no command and no scheduler step removes a channel group: a channel that has a
\* group keeps one in every later state of the process.
GroupsAreNeverRemoved ==
    [][restarts' = restarts =>
          \A c \in Channels : HasGroup(config, c) => HasGroup(config', c)]_vars

\* every entry of every group of cfg is an entry of the same channel's group in next
KeepsSubs(cfg, next) ==
    \A c \in Channels :
        \A k \in 1..Len(SubsOf(getConfigGroups(cfg), c)) :
            \E j \in 1..Len(SubsOf(getConfigGroups(next), c)) :
                SubsOf(getConfigGroups(next), c)[j] = SubsOf(getConfigGroups(cfg), c)[k]

\* C24: while the start-up load is reading the file no command looks up or changes the
\* groups (none answers, the config stays as it is), and when the load completes no
\* subscription that is in the in-memory config is lost.
ConfigIsAppliedBeforeTheGroupsAreUsed ==
    [][loading.active =>
          /\ loading'.active => (reply' = reply /\ config' = config)
          /\ ~loading'.active => KeepsSubs(config, config')]_vars

\* ---------------------------------------------------------------- the load of the state file

\* the state file holds an object for the key
FileHolds(key) == stFile.ok /\ key \in DOMAIN stFile.map /\ stFile.map[key] # NotObject

\* C25: getState reports no tuple as absent while the state file holds an entry for it,
\* and when the read of the state file is applied it replaces no value that createState
\* or updateState has put into the cache, also when a second check starts while the
\* first one's load is in progress.
StateFileIsAppliedBeforeTheCacheIsUsed ==
    [][\A s \in Slots :
          /\ (Decides(s) /\ KeyOf(tasks[s].cur) \notin DOMAIN CacheRead(s))
                => ~FileHolds(KeyOf(tasks[s].cur))
          /\ (tasks[s].pc = "load" /\ LoadReturn(s))
                => \A k \in DOMAIN stateCache : CacheRead(s)[k] = stateCache[k]]_vars

\* ---------------------------------------------------------------- the last-check timestamp

\* the fetch of the pass of slot s returns in this step, with a record, with an empty
\* list or with an error
PassFetchEnds(s) ==
    /\ tasks[s].kind = "pass"
    /\ ~tasks[s].force
    /\ tasks[s].pc = "fetch"
    /\ \E outcome \in {"ok", "throw"} : FetchReturn(s, outcome)

\* C26: a scheduled pass sets the last-check timestamp of a subscription to the current
\* time when it starts the fetch; the timestamp keeps that value when the fetch returns,
\* with or without a version or with an error (it changes only where the same step
\* starts the next check of the same tuple); and a pass starts the check of a
\* subscription that has a timestamp only when the interval has elapsed since.
TimestampIsSetBeforeTheFetchAndKept ==
    [][\A s \in Slots :
          LET key == KeyOf(tasks[s].cur)
              started == tasks'[s].cur
          IN  /\ (FetchStarts(s) /\ ~tasks'[s].force) =>
                    /\ KeyOf(started) \in DOMAIN lastCheckMap'
                    /\ lastCheckMap'[KeyOf(started)] = now
                    /\ KeyOf(started) \in DOMAIN lastCheckMap
                          => now - lastCheckMap[KeyOf(started)] >= started.interval
              /\ PassFetchEnds(s) =>
                    /\ key \in DOMAIN lastCheckMap /\ key \in DOMAIN lastCheckMap'
                    /\ lastCheckMap'[key] # lastCheckMap[key]
                          => FetchStarts(s) /\ KeyOf(started) = key]_vars
\* every check of the subscription so far has failed, the last one before the latest
\* base tick, whose pass left its timestamp as it was: the interval had not elapsed
FailedCheckIsSkippedByTheNextPass ==
    /\ Busy = {}
    /\ K1 \in DOMAIN lastCheckMap
    /\ K1 \notin DOMAIN prevRec
    /\ K1 \notin DOMAIN stateCache
    /\ timers.armed
    /\ timers.tick > lastCheckMap[K1] + BaseTick
    /\ now - lastCheckMap[K1] < MinInterval

\* ---------------------------------------------------------------- the check after a failure

\* the list whose head the gate of the pass of slot s looks at next
GateList(s) == IF tasks[s].kind = "pass" THEN tasks[s].queue ELSE Scheduled
\* in this step the pass of slot s comes to the gate: autoCheckLoop begins a pass, or
\* the pass leaves its subscription for the rest of its list
GateReached(s) ==
    /\ restarts' = restarts
    /\ \/ /\ tasks[s].kind = "idle"
          /\ config.enabled = ON
          /\ \E which \in {"startup", "tick"} : AutoCheckLoop(s, which)
       \/ /\ tasks[s].kind = "pass"
          /\ tasks[s].queue # <<>>
          /\ tasks'[s].queue # tasks[s].queue
\* in this step the pass of slot s starts the check of the k-th subscription of the list
ChecksNow(s, k) ==
    /\ tasks'[s].kind = "pass"
    /\ tasks'[s].pc = "fetch"
    /\ tasks'[s].cur = GateList(s)[k]
    /\ tasks'[s].queue = SubSeq(GateList(s), k + 1, Len(GateList(s)))
\* a pass has checked the subscription and no check of it has got a record
FailedSoFar(sub) == KeyOf(sub) \in DOMAIN lastCheckMap /\ KeyOf(sub) \notin DOMAIN prevRec

\* C27 as stated: a subscription whose check failed is checked again by the pass of
\* the next base tick: when the gate of a pass comes to it, its check starts.
FailedCheckIsRetriedOnTheNextTick ==
    [][\A s \in Slots : GateReached(s) =>
          \A k \in 1..Len(GateList(s)) :
             (FailedSoFar(GateList(s)[k]) /\ \A j \in 1..(k - 1) : ~ChecksNow(s, j))
                => ChecksNow(s, k)]_vars
\* C27, amended: a subscription whose check failed is checked again by the first pass
\* whose gate comes to it when its interval has elapsed since the failed check began;
\* a pass that comes to it earlier skips it.
FailedCheckIsRetriedWhenItsIntervalHasElapsed ==
    [][\A s \in Slots : GateReached(s) =>
          \A k \in 1..Len(GateList(s)) :
             (FailedSoFar(GateList(s)[k]) /\ \A j \in 1..(k - 1) : ~ChecksNow(s, j))
                => (ChecksNow(s, k) <=> Due(GateList(s)[k]))]_vars
\* the check of c1|mr|p1 failed in an earlier pass, the one that stamped c1|cf|2, and
\* a later pass has started it again
FailedCheckIsRetried ==
    \E s \in Slots :
        /\ tasks[s].kind = "pass"
        /\ tasks[s].pc = "fetch"
        /\ KeyOf(tasks[s].cur) = K1
        /\ K1 \notin DOMAIN prevRec
        /\ lastCheckMap[K1] = now
        /\ K2 \in DOMAIN lastCheckMap
        /\ lastCheckMap[K2] < now

\* ---------------------------------------------------------------- one save at a time

\* the handlers that are inside saveStateToFile, at its mkdir or its writeFile
Saving == {s \in Slots : tasks[s].pc \in {"mkdir", "write"}}
\* in this step the handler of slot s calls createState or updateState, and with it
\* saveStateToFile
SaveCalled(s) ==
    \/ Decides(s) /\ stateCache' # CacheRead(s)
    \/ tasks[s].pc = "send" /\ SendReturn(s, TRUE)

\* C28: at most one handler is inside saveStateToFile, and saving is set exactly while
\* one is; a save called while saving is set returns without touching the file; when
\* a write returns, with or without an error, saving is reset.
OneSaveAtATime ==
    [][/\ Cardinality(Saving') <= 1
       /\ saving' <=> Saving' # {}
       /\ \A s \in Slots :
             /\ (saving /\ SaveCalled(s)) =>
                   /\ tasks'[s].pc \notin {"mkdir", "write"}
                   /\ stFile' = stFile
             /\ (tasks[s].pc = "write" /\ tasks'[s].pc # "write") => ~saving']_vars
\* the state file has never been written although the entry was created and then
\* updated: every save has ended, the writes have failed, and saving is reset
FailedWriteLeavesTheFlagReset ==
    /\ Busy = {}
    /\ ~saving
    /\ ~stFile.ok
    /\ K1 \in DOMAIN stateCache
    /\ stateCache[K1] = "v2"

\* ---------------------------------------------------------------- what a save writes

\* the label createState or updateState of slot s is called with in this step
WrittenBy(s) == IF tasks[s].pc = "send" THEN tasks[s].latest.version ELSE RecordOf(s).version
\* the map holds the label for the key, '' standing for a label that is missing
Holds(cache, key, v) == key \in DOMAIN cache /\ OrEmpty(cache[key]) = OrEmpty(v)
\* the file holds an object with the label for the key
FileHas(file, key, v) ==
    /\ file.ok
    /\ key \in DOMAIN file.map
    /\ file.map[key] # NotObject
    /\ OrEmpty(LastVersionOf(file.map[key])) = OrEmpty(v)
\* a save that is called while saving is set: the map holds the label, the file stays
CollidedSaveKeepsTheMap(s) ==
    (saving /\ SaveCalled(s)) =>
        /\ Holds(stateCache', KeyOf(tasks[s].cur), WrittenBy(s))
        /\ stFile' = stFile

\* C29 as stated: when the save of createState or updateState did not collide and its
\* write did not fail, the file holds the label the call was made with when it
\* returns; when it collided, the map holds the label and the file is left as it is.
FileHoldsTheValueJustWritten ==
    [][\A s \in Slots :
          /\ (tasks[s].pc = "write" /\ WriteReturn(s, TRUE))
                => FileHas(stFile', KeyOf(tasks[s].cur), tasks[s].latest.version)
          /\ CollidedSaveKeepsTheMap(s)]_vars
\* C29, amended: a save that does not collide starts with the label in the map, builds
\* its object from the map as it is when its mkdir has returned, and when its write has
\* not failed the file holds every entry of that object, the key of the caller among
\* them; when the save collided, the map holds the label and the file is left as it is.
FileHoldsTheMapAsOfTheSave ==
    [][\A s \in Slots :
          /\ (~saving /\ SaveCalled(s)) =>
                /\ tasks'[s].pc = "mkdir"
                /\ Holds(stateCache', KeyOf(tasks[s].cur), WrittenBy(s))
          /\ (tasks[s].pc = "mkdir" /\ tasks'[s].pc = "write") =>
                /\ tasks'[s].buf = stateCache
                /\ KeyOf(tasks[s].cur) \in DOMAIN stateCache
          /\ (tasks[s].pc = "write" /\ WriteReturn(s, TRUE)) =>
                /\ DOMAIN stFile'.map = DOMAIN tasks[s].buf
                /\ \A k \in DOMAIN tasks[s].buf : FileHas(stFile', k, tasks[s].buf[k])
                /\ KeyOf(tasks[s].cur) \in DOMAIN stFile'.map
          /\ CollidedSaveKeepsTheMap(s)]_vars
\* a save is at its writeFile and the map has since got another label for the key:
\* the save of the handler that put it there collided
CollidedValueIsNotInTheObject ==
    \E s \in Slots :
        /\ tasks[s].pc = "write"
        /\ K1 \in DOMAIN tasks[s].buf
        /\ tasks[s].buf[K1] = "v1"
        /\ stateCache[K1] = "v2"

\* ---------------------------------------------------------------- a write that fails

\* C30: when the write of the config file fails, notify.add, notify.remove and
\* notify.enable answer as they do when it succeeds and the config in memory has the
\* change, the file being left as it was; when the write of the state file fails, the
\* check goes on where it would have gone on (to sendUpdate, to its next subscription
\* or to its end), the cache keeps the entry and the flag is reset; notify.list and the
\* change detector read the config and the cache in memory, not the files.
FailedWriteKeepsTheChangeInMemory ==
    [][/\ \A a \in FailPairArgs :
             LET c == a[1]
                 pk == normalizePlatform(a[2])
                 pid == Trim(a[3])
                 before == SubsOf(getConfigGroups(Loaded.config), c)
                 after == SubsOf(getConfigGroups(config'), c)
             IN  /\ (NotifyAdd(c, a[2], a[3], a[4], FALSE) /\ ~Present(before, pk, pid)) =>
                       /\ reply'.tag = "Added"
                       /\ Present(after, pk, pid)
                       /\ Len(after) = Len(before) + 1
                       /\ cfgFile' = cfgFile
                 /\ (NotifyRemove(c, a[2], a[3], a[4], FALSE) /\ Present(before, pk, pid)) =>
                       /\ reply'.tag = "Removed"
                       /\ ~Present(after, pk, pid)
                       /\ cfgFile' = cfgFile
       /\ \A o \in {"on", "off"} :
             NotifyEnable("c1", o, 3, FALSE) =>
                /\ reply'.tag = (IF o = "on" THEN "Enabled" ELSE "Disabled")
                /\ GroupFlag(config', "c1") = parseOnOff(o)
                /\ cfgFile' = cfgFile
       /\ (configLoaded /\ \E w \in BOOLEAN : NotifyList("c1", 3, w)) =>
             Len(reply'.lines) = Len(SubsOf(getConfigGroups(config), "c1"))
       /\ \A s \in Slots :
             /\ (tasks[s].pc = "write" /\ WriteReturn(s, FALSE)) =>
                   /\ stFile' = stFile
                   /\ stateCache' = stateCache
                   /\ KeyOf(tasks[s].cur) \in DOMAIN stateCache'
                   /\ ~saving'
                   /\ IF tasks[s].after = "send" THEN tasks'[s].pc = "send"
                      ELSE tasks'[s].pc \in {"fetch", "idle"}
             /\ (Decides(s) /\ stateLoaded /\ ~Forced(tasks[s])
                    /\ KeyOf(tasks[s].cur) \in DOMAIN stateCache
                    /\ stateCache[KeyOf(tasks[s].cur)] = RecordOf(s).version
                    /\ ~Falsy(RecordOf(s).version)) =>
                   /\ ~SendFollows(s)
                   /\ stateCache' = stateCache]_vars
\* no write of either file has succeeded: the config file still has its one
\* subscription and there is no state file, while notify.list has shown the two
\* subscriptions the config in memory has and the cache has the entry of the first
ChangesLiveInMemoryOnly ==
    /\ cfgFile = CfgOneSub
    /\ ~savedGroups.has
    /\ reply.tag = "ListOn"
    /\ Len(reply.lines) = 2
    /\ ~stFile.ok
    /\ ~saving
    /\ K1 \in DOMAIN stateCache

\* ---------------------------------------------------------------- a fetch without a version

\* in this step the fetch of slot s comes back without a version: it throws (transport
\* error, timeout, non-success status) or the list it got is empty
FetchGivesNothing(s) ==
    /\ tasks[s].pc = "fetch"
    /\ \/ FetchReturn(s, "throw")
       \/ /\ FetchReturn(s, "ok")
          /\ getLatest(upstream, tasks[s].cur.platform, tasks[s].cur.projectId) = NoRec

\* C31: when the fetch of a subscription throws or returns no version, in a pass and in
\* a manual check, forced or not, sendUpdate is not called for it, no notification is
\* counted, and the state map, the state file and the load flag stay as they are.
FailedFetchChangesNoState ==
    [][\A s \in Slots : FetchGivesNothing(s) =>
          /\ stateCache' = stateCache
          /\ stFile' = stFile
          /\ stateLoaded' = stateLoaded
          /\ sentCur' = sentCur
          /\ ~SendFollows(s)
          /\ tasks'[s].pc \in {"fetch", "idle"}
          /\ tasks'[s].kind # "idle" => tasks'[s].sent = tasks[s].sent]_vars
\* the fetch of c1|mr|p1 has failed in this pass, which has gone on to c1|cf|2; the
\* entry of c1|mr|p1 is the one an earlier check left
FailedFetchLeftTheEntry ==
    \E s \in Slots :
        /\ tasks[s].kind = "pass"
        /\ tasks[s].failed = 1
        /\ tasks[s].pc = "fetch"
        /\ KeyOf(tasks[s].cur) = K2
        /\ K1 \in DOMAIN stateCache
        /\ stateCache[K1] = "v1"
        /\ K1 \in DOMAIN lastCheckMap
        /\ lastCheckMap[K1] = lastCheckMap[K2]

\* ------------------------------------------------------------ state entries are kept

\* C32: no step deletes an entry of the state map; a step that changes the config
\* (notify.add, notify.remove, notify.enable, the first load) leaves the state map and
\* the state file as they are; and a check that is not forced and finds an entry with a
\* label, whenever the subscription was added, compares with that label: it notifies
\* when the fetched label differs and does nothing when it is the same.
StateEntriesAreKept ==
    [][/\ DOMAIN stateCache \subseteq DOMAIN stateCache'
       /\ (config' # config \/ cfgFile' # cfgFile)
             => stateCache' = stateCache /\ stFile' = stFile /\ stateLoaded' = stateLoaded
       /\ \A s \in Slots :
             LET key == KeyOf(tasks[s].cur)
                 cache == CacheRead(s)
             IN  (/\ Decides(s)
                  /\ ~Forced(tasks[s])
                  /\ key \in DOMAIN cache
                  /\ ~Falsy(cache[key]))
                 => /\ stateCache' = cache
                    /\ SendFollows(s) <=> RecordOf(s).version # cache[key]]_vars
\* notify.add has just added c1|mr|p1, whose entry an earlier check left, and the pass
\* that began after it is notifying of v2 against the old v1
ReAddedIsComparedWithItsOldVersion ==
    /\ reply = Reply("Added")
    /\ tasks["a"].kind = "pass"
    /\ tasks["a"].pc = "send"
    /\ KeyOf(tasks["a"].cur) = K1
    /\ tasks["a"].latest.version = "v2"
    /\ K1 \in DOMAIN stateCache
    /\ stateCache[K1] = "v1"

\* ------------------------------------------------------------- the scheduler goes on

\* the engine is on and the subscription of this key is one the scheduler iterates:
\* valid, in the config, in a group that is enabled
InSchedule(key) ==
    /\ config.enabled = ON
    /\ \E k \in 1..Len(Scheduled) : KeyOf(Scheduled[k]) = key
\* the interval of the subscription of this key
IntervalOf(key) ==
    Scheduled[CHOOSE k \in 1..Len(Scheduled) : KeyOf(Scheduled[k]) = key].interval
\* the last moment of the stretch of time
LiveEnd == StartTime + LiveClock * TimeStep

\* a pass is checking the subscription of this key: it has set the timestamp and the
\* fetch is under way
PassChecks(key) ==
    /\ tasks["a"].kind = "pass"
    /\ tasks["a"].pc = "fetch"
    /\ KeyOf(tasks["a"].cur) = key
\* the moment from which the gate lets the subscription of this key through
DueAt(key) ==
    IF key \in DOMAIN lastCheckMap /\ lastCheckMap[key] + IntervalOf(key) > now
    THEN lastCheckMap[key] + IntervalOf(key)
    ELSE now

\* C33: under the fairness of the timers and of the awaited calls, a subscription that
\* is in the schedule and not being checked is checked by a pass later on, unless it
\* leaves the schedule; this from every moment from which the stretch of time still
\* holds the base tick that follows the moment the subscription is due.
ScheduledSubscriptionIsCheckedAgain ==
    \A key \in {K1, K2} :
        (/\ InSchedule(key)
         /\ ~PassChecks(key)
         /\ DueAt(key) + BaseTick <= LiveEnd)
        ~> (PassChecks(key) \/ ~InSchedule(key))
\* a pass is fetching c1|mr|p1 on a tick, having checked it at the start-up pass before
SecondCheckOfTheSubscription ==
    /\ tasks["a"].kind = "pass"
    /\ tasks["a"].pc = "fetch"
    /\ KeyOf(tasks["a"].cur) = K1
    /\ lastCheckMap[K1] = now
    /\ now >= StartTime + TimeStep + MinInterval
    /\ K1 \in DOMAIN stateCache
    /\ InSchedule(K1)

\* ------------------------------------------------- the timestamp and the manual check

\* C34: a manual check, forced or not, is begun whatever the last-check timestamp of its
\* subscription is, and it sets that timestamp: when it starts the check of a
\* subscription, the timestamp of the subscription is the time of the check.
ManualCheckSetsTheTimestamp ==
    [][\A s \in Slots :
          (/\ tasks'[s].kind = "manual"
           /\ tasks'[s].pc = "fetch"
           /\ tasks[s].pc # "fetch" \/ tasks[s].cur # tasks'[s].cur)
          => /\ KeyOf(tasks'[s].cur) \in DOMAIN lastCheckMap'
             /\ lastCheckMap'[KeyOf(tasks'[s].cur)] = now]_vars

\* --------------------------------------------------------------------- the state key

\* the tuple (channelId, platform, projectId) of a subscription
TupleOf(sub) == <<sub.channelId, sub.platform, sub.projectId>>

\* C39: getStateKey is injective on the tuples the config holds: two subscriptions of
\* the schedule with different (channelId, platform, projectId) have different keys,
\* and so a pass that checks one of them leaves the other's last-check timestamp alone.
StateKeyIsInjective ==
    \A i, j \in 1..Len(Scheduled) :
        TupleOf(Scheduled[i]) # TupleOf(Scheduled[j])
        => KeyOf(Scheduled[i]) # KeyOf(Scheduled[j])

\* C35: a command that changes the config changes one group at most, and a step of the
\* check of a subscription (C, p, x) changes the state entry of no other subscription
\* of the schedule and is delivered to channel C.
ChangesStayInTheirChannel ==
    [][/\ configLoaded =>
             LET old == getConfigGroups(config)
                 new == getConfigGroups(config')
             IN  /\ Len(new) >= Len(old)
                 /\ Cardinality({i \in 1..Len(old) : new[i] # old[i]}) <= 1
       /\ \A s \in Slots, k \in 1..Len(Scheduled) :
             (/\ tasks[s].pc \in {"fetch", "send", "mkdir", "write"}
              /\ stateLoaded
              /\ TupleOf(Scheduled[k]) # <<tasks[s].cur.channelId, tasks[s].cur.platform,
                                           tasks[s].cur.projectId>>)
             => LET key == KeyOf(Scheduled[k])
                IN  /\ (key \in DOMAIN stateCache') = (key \in DOMAIN stateCache)
                    /\ key \in DOMAIN stateCache => stateCache'[key] = stateCache[key]]_vars

\* ------------------------------------------------------- notify.check in a disabled group

\* the channel has a group, and every group of the channel has the flag false, in the
\* config a command works on
GroupIsOff(channelId) ==
    LET groups == getConfigGroups(Loaded.config)
    IN  /\ \E i \in 1..Len(groups) : groups[i].channelId = channelId
        /\ \A i \in 1..Len(groups) :
              groups[i].channelId = channelId => groups[i].enabled = OFF

\* C36: while the flag of the group of channel c1 is false, notify.check in c1, with
\* any argument and with or without -b, answers 'no subscriptions' and starts no check:
\* no fetch, no send, the state map, the state file and the timestamps unchanged; and
\* notify.list in c1 then answers with the 'disabled' header and one line for each
\* stored subscription of the group.
DisabledGroupIsNotCheckedByHand ==
    [][GroupIsOff("c1") =>
          /\ \A arg \in CheckArgs, b \in BOOLEAN :
                NotifyCheck("a", "c1", arg, b, 3, TRUE) =>
                   /\ reply' = Reply("NoSubs")
                   /\ tasks' = tasks
                   /\ stateCache' = stateCache
                   /\ stFile' = stFile
                   /\ lastCheckMap' = lastCheckMap
                   /\ sentCur' = sentCur
          /\ (NotifyList("c1", 3, TRUE) /\ SubsOf(getConfigGroups(Loaded.config), "c1") # <<>>)
                => /\ reply'.tag = "ListOff"
                   /\ reply'.lines = Listed("c1")]_vars
\* notify.check in c1 has just answered 'no subscriptions' although the group of c1,
\* which is disabled, has a subscription (notify.list of either channel would have
\* answered with a list)
CheckRefusedInDisabledGroup ==
    /\ reply = Reply("NoSubs")
    /\ configLoaded
    /\ GroupFlag(config, "c1") = OFF
    /\ SubsOf(getConfigGroups(config), "c1") # <<>>
    /\ SubsOf(getConfigGroups(config), "c2") # <<>>
    /\ Busy = {}

\* ------------------------------------------------------------------ C37
\* the connections of the last delivery whose platform is the prefix of its channel id
PrefixBots == {k \in 1..Len(delivery.bots) :
                  delivery.bots[k] = parseChannelId(delivery.channelId).platform}
\* C37: a call of sendToChannel delivers through one connection at most: it calls the
\* first connection of the prefix's platform alone when there is one, else the only
\* connection alone, else the connections in order up to the first call that returns; it
\* returns true when a call returned, and when none did it returns false and does not
\* throw.
ImageGoesThroughOneConnection ==
    delivery # NoDelivery =>
       LET tries == delivery.attempts
           n == Len(tries)
       IN  /\ Cardinality({k \in 1..n : tries[k].ok}) <= 1
           /\ \A k \in 1..n : tries[k].ok => k = n
           /\ IF parseChannelId(delivery.channelId) # NoParse /\ PrefixBots # {}
              THEN /\ n = 1
                   /\ tries[1].bot \in PrefixBots
                   /\ \A j \in PrefixBots : tries[1].bot <= j
                   /\ tries[1].id = parseChannelId(delivery.channelId).id
              ELSE IF Len(delivery.bots) = 1
              THEN n = 1 /\ tries[1].bot = 1 /\ tries[1].id = delivery.channelId
              ELSE /\ \A k \in 1..n : tries[k].bot = k /\ tries[k].id = delivery.channelId
                   /\ n < Len(delivery.bots) => tries[n].ok
           /\ delivery.result = IF \E k \in 1..n : tries[k].ok THEN "true" ELSE "false"

\* ------------------------------------------------------------------ C38
\* the task with this id waits in the queue; it has been started
InQueue(id) == \E k \in DOMAIN queue : queue[k].id = id
Started(id) == \E k \in DOMAIN executing : executing[k].id = id
\* C38: when the timers fire and every task that has started finishes, every task that
\* waits in the queue is started, whatever finished before it and whenever it was
\* pushed.
QueuedTaskIsStarted ==
    \A id \in 1..MaxArrivals : InQueue(id) ~> Started(id)
\* the third task pushed has been started while the fourth, pushed while it runs,
\* waits, and the timeouts of the tasks before have fired
ThirdTaskStartedFromTheQueue ==
    /\ Started(3)
    /\ InQueue(4)
    /\ isProcessing
    /\ rearm = 0
====
